---- MODULE Spec2Model ----
(***************************************************************************)
(* cocopot: URL router (cocopot/routing.py), request context and the       *)
(* per-request dispatch of the application object (cocopot/app.py).        *)
(*                                                                         *)
(* Python strings that the code takes apart (paths, method names, the      *)
(* text handed to MethodNotAllowed, header values) are sequences of        *)
(* one-character strings.  Long fixed message texts that are only passed   *)
(* along are kept as one token.                                            *)
(***************************************************************************)
EXTENDS Integers, Sequences, FiniteSets, TLC

VARIABLES static_routes, dynamic_patterns, dynamic_routes, strict_order,
          filters, added, result,
          view_functions, before_request_funcs, after_request_funcs,
          teardown_request_funcs, error_handler_spec, request_ctx_stack,
          deferred_functions, blueprints, g

vars == <<static_routes, dynamic_patterns, dynamic_routes, strict_order,
          filters, added, result,
          view_functions, before_request_funcs, after_request_funcs,
          teardown_request_funcs, error_handler_spec, request_ctx_stack,
          deferred_functions, blueprints, g>>

\* the Blueprint objects (their deferred functions), the blueprints registered
\* on the application, and the g of the RequestContext objects
objectVars == <<deferred_functions, blueprints, g>>

appVars == <<view_functions, before_request_funcs, after_request_funcs,
             teardown_request_funcs, error_handler_spec, objectVars>>

routerVars == <<static_routes, dynamic_patterns, dynamic_routes, strict_order, filters>>

----------------------------------------------------------------------------
(* Bounds of the model *)

MaxAdds == 2

\* registrations made on one application
MaxSetup == 3

\* contexts on the context stack
MaxDepth == 3

\* the deferred functions recorded on one blueprint
MaxDeferred == 3

----------------------------------------------------------------------------
(* Python string helpers *)

UpperChars == <<"A","B","C","D","E","F","G","H","I","J","K","L","M",
                "N","O","P","Q","R","S","T","U","V","W","X","Y","Z">>

LowerChars == <<"a","b","c","d","e","f","g","h","i","j","k","l","m",
                "n","o","p","q","r","s","t","u","v","w","x","y","z">>

IndexIn(seq, c) == IF \E i \in 1..Len(seq) : seq[i] = c
                   THEN CHOOSE i \in 1..Len(seq) : seq[i] = c
                   ELSE 0

\* code point order restricted to the characters method names are made of
Ord(c) == IF IndexIn(UpperChars, c) > 0 THEN 64 + IndexIn(UpperChars, c)
          ELSE IF IndexIn(LowerChars, c) > 0 THEN 96 + IndexIn(LowerChars, c)
          ELSE 0

UpperChar(c) == IF IndexIn(LowerChars, c) > 0 THEN UpperChars[IndexIn(LowerChars, c)] ELSE c

\* str.upper()
Upper(s) == [i \in 1..Len(s) |-> UpperChar(s[i])]

RECURSIVE StrLess(_, _)
StrLess(a, b) ==
    IF b = <<>> THEN FALSE
    ELSE IF a = <<>> THEN TRUE
    ELSE IF Ord(a[1]) # Ord(b[1]) THEN Ord(a[1]) < Ord(b[1])
    ELSE StrLess(Tail(a), Tail(b))

\* sorted(iterable of str)
RECURSIVE Sorted(_)
Sorted(S) ==
    IF S = {} THEN <<>>
    ELSE LET m == CHOOSE x \in S : \A y \in S \ {x} : StrLess(x, y)
         IN <<m>> \o Sorted(S \ {m})

\* sep.join(items); items is the sequence the iteration yields
RECURSIVE Join(_, _)
Join(sep, items) ==
    IF items = <<>> THEN <<>>
    ELSE IF Len(items) = 1 THEN items[1]
    ELSE items[1] \o sep \o Join(sep, Tail(items))

\* iterating a str yields its characters, each a str of length one
IterStr(s) == [i \in 1..Len(s) |-> <<s[i]>>]

EmptyMap == [k \in {} |-> <<>>]

----------------------------------------------------------------------------
(* Values carried in url_args and defaults *)

StrVal(s) == [k |-> "str", s |-> s, n |-> 0]
IntVal(n) == [k |-> "int", s |-> <<>>, n |-> n]
FloatVal(s) == [k |-> "float", s |-> s, n |-> 0]
CustomVal(s) == [k |-> "custom", s |-> s, n |-> 0]

Digits == <<"0","1","2","3","4","5","6","7","8","9">>

IsDigit(c) == IndexIn(Digits, c) > 0

RECURSIVE DigitsValue(_)
DigitsValue(s) == IF s = <<>> THEN 0
                  ELSE 10 * DigitsValue(SubSeq(s, 1, Len(s) - 1)) + (IndexIn(Digits, s[Len(s)]) - 1)

----------------------------------------------------------------------------
(* Router: converters (Router.__init__, filters) *)

\* text accepted by the regular expression fragment of a converter
MaskOK(mask, s) ==
    /\ Len(s) >= 1
    /\ CASE mask = "[^/]+" -> \A i \in 1..Len(s) : s[i] # "/"
         [] mask = "-?\\d+" ->
                LET t == IF s[1] = "-" THEN Tail(s) ELSE s
                IN Len(t) >= 1 /\ \A i \in 1..Len(t) : IsDigit(t[i])
         [] mask = "-?[\\d.]+" ->
                LET t == IF s[1] = "-" THEN Tail(s) ELSE s
                IN Len(t) >= 1 /\ \A i \in 1..Len(t) : IsDigit(t[i]) \/ t[i] = "."
         [] mask = ".+?" -> TRUE
         [] OTHER -> FALSE

\* the built-in converter table: name -> (mask, to_python)
BuiltinFilters ==
    [string |-> [mask |-> "[^/]+", in_filter |-> "None"],
     int    |-> [mask |-> "-?\\d+", in_filter |-> "int"],
     float  |-> [mask |-> "-?[\\d.]+", in_filter |-> "float"],
     path   |-> [mask |-> ".+?", in_filter |-> "None"]]

\* the to_python callables a custom converter may supply: both accept the
\* texts starting with "a"; they differ in the exception that rejects the rest
CustomDecoders == {"lookupValueError", "lookupKeyError"}

\* outcome of wildcard_filter(text): [ok, val] or [ok = FALSE, exc]
ApplyFilter(f, text) ==
    CASE f = "int" ->
            LET neg == text[1] = "-"
                t == IF neg THEN Tail(text) ELSE text
            IN [ok |-> TRUE, exc |-> "", val |-> IntVal(IF neg THEN 0 - DigitsValue(t) ELSE DigitsValue(t))]
      [] f = "float" ->
            LET t == IF text[1] = "-" THEN Tail(text) ELSE text
                dots == Cardinality({i \in 1..Len(t) : t[i] = "."})
                digs == Cardinality({i \in 1..Len(t) : IsDigit(t[i])})
            IN IF dots <= 1 /\ digs >= 1
               THEN [ok |-> TRUE, exc |-> "", val |-> FloatVal(text)]
               ELSE [ok |-> FALSE, exc |-> "ValueError", val |-> StrVal(text)]
      [] f = "lookupValueError" ->
            IF text[1] = "a" THEN [ok |-> TRUE, exc |-> "", val |-> CustomVal(text)]
            ELSE [ok |-> FALSE, exc |-> "ValueError", val |-> StrVal(text)]
      [] f = "lookupKeyError" ->
            IF text[1] = "a" THEN [ok |-> TRUE, exc |-> "", val |-> CustomVal(text)]
            ELSE [ok |-> FALSE, exc |-> "KeyError", val |-> StrVal(text)]

----------------------------------------------------------------------------
(* Router.add *)

Lit(c) == [t |-> "lit", c |-> c, v |-> ""]
Wild(conv, var) == [t |-> "wild", c |-> conv, v |-> var]

\* _itertokens: converter of a wildcard, 'string' when none is written
ConverterOf(atom) == IF atom.c = "" THEN "string" ELSE atom.c

Wildcards(rule) == {i \in 1..Len(rule) : rule[i].t = "wild"}

IsStatic(rule) == Wildcards(rule) = {}

\* the converters a rule names that the table does not know
UnknownConverters(flt, rule) == {i \in Wildcards(rule) : ConverterOf(rule[i]) \notin DOMAIN flt}

\* pattern: escaped literals and one named group per wildcard, in order
BuildPattern(flt, rule) ==
    [i \in 1..Len(rule) |->
        IF rule[i].t = "wild"
        THEN [t |-> "grp", c |-> flt[ConverterOf(rule[i])].mask, v |-> rule[i].v]
        ELSE rule[i]]

RECURSIVE BuildFilters(_, _)
BuildFilters(flt, rule) ==
    IF rule = <<>> THEN <<>>
    ELSE LET a == Head(rule)
             here == IF a.t = "wild" /\ flt[ConverterOf(a)].in_filter # "None"
                     THEN <<[name |-> a.v, f |-> flt[ConverterOf(a)].in_filter]>>
                     ELSE <<>>
         IN here \o BuildFilters(flt, Tail(rule))

RuleArgs(flt, rule, endpoint, defaults) ==
    [endpoint |-> endpoint, rule |-> rule, filters |-> BuildFilters(flt, rule),
     pattern |-> BuildPattern(flt, rule), defaults |-> defaults]

\* dict([(m.upper(), rule_args) for m in methods])
MethodMap(methods, rule_args) ==
    [m \in {Upper(x) : x \in methods} |-> rule_args]

StoresStatic(strict, rule) == IsStatic(rule) /\ ~strict

\* the rule string of a rule without wildcards, as the path it equals
RuleText(rule) == [i \in 1..Len(rule) |-> rule[i].c]

\* the router after add(rule, endpoint, methods, defaults); r is the router
\* as a record of its fields
RouterAdd(r, rule, endpoint, methods, defaults) ==
    LET rule_args == RuleArgs(r.filters, rule, endpoint, defaults)
        pattern == rule_args.pattern
    IN IF StoresStatic(r.strict_order, rule)
       THEN [r EXCEPT !.static_routes =
                [p \in DOMAIN r.static_routes \cup {RuleText(rule)} |->
                    IF p = RuleText(rule) THEN MethodMap(methods, rule_args) ELSE r.static_routes[p]]]
       ELSE [r EXCEPT !.dynamic_patterns = Append(r.dynamic_patterns, pattern),
                      !.dynamic_routes =
                [p \in DOMAIN r.dynamic_routes \cup {pattern} |->
                    IF p = pattern THEN MethodMap(methods, rule_args) ELSE r.dynamic_routes[p]]]

----------------------------------------------------------------------------
(* Router.match *)

Min(S) == CHOOSE x \in S : \A y \in S : x <= y
Max(S) == CHOOSE x \in S : \A y \in S : x >= y

\* re.compile('^(%s)$' % pattern).match(path): <<>> when the path does not
\* match, else <<groupdict>>.  A greedy group takes the longest text that
\* lets the rest match, the non-greedy '.+?' the shortest.
RECURSIVE ReMatch(_, _)
ReMatch(pattern, path) ==
    IF pattern = <<>> THEN (IF path = <<>> THEN <<EmptyMap>> ELSE <<>>)
    ELSE LET h == Head(pattern) IN
         IF h.t = "lit"
         THEN IF path # <<>> /\ path[1] = h.c THEN ReMatch(Tail(pattern), Tail(path)) ELSE <<>>
         ELSE LET fits == {n \in 1..Len(path) :
                             /\ MaskOK(h.c, SubSeq(path, 1, n))
                             /\ ReMatch(Tail(pattern), SubSeq(path, n + 1, Len(path))) # <<>>}
              IN IF fits = {} THEN <<>>
                 ELSE LET n == IF h.c = ".+?" THEN Min(fits) ELSE Max(fits)
                          rest == ReMatch(Tail(pattern), SubSeq(path, n + 1, Len(path)))[1]
                      IN <<[k \in DOMAIN rest \cup {h.v} |->
                              IF k = h.v THEN SubSeq(path, 1, n) ELSE rest[k]]>>

Matches(pattern, path) == ReMatch(pattern, path) # <<>>

\* a falsy dict
Falsy(d) == DOMAIN d = {}

NoRule == [m \in {} |-> 0]

\* the scan keeps going and ends on the last matching pattern
LastDynamic(patterns, path) ==
    LET hits == {i \in 1..Len(patterns) : Matches(patterns[i], path)}
    IN IF hits = {} THEN 0 ELSE Max(hits)

\* index of the first dynamic pattern matching the path, 0 when none does
FirstDynamic(patterns, path) ==
    LET hits == {i \in 1..Len(patterns) : Matches(patterns[i], path)}
    IN IF hits = {} THEN 0 ELSE Min(hits)

\* the dynamic rules are scanned before the static map is looked at
SelectRuleDynamicFirst(r, path) ==
    LET static_hit == IF path \in DOMAIN r.static_routes THEN r.static_routes[path] ELSE NoRule
        i == FirstDynamic(r.dynamic_patterns, path)
    IN IF i # 0 THEN [rule_args |-> r.dynamic_routes[r.dynamic_patterns[i]],
                      url_args |-> ReMatch(r.dynamic_patterns[i], path)[1]]
       ELSE [rule_args |-> static_hit, url_args |-> EmptyMap]

\* lines 100-108: the method map chosen for the path and the raw url_args
SelectRule(r, path) ==
    LET static_hit == IF path \in DOMAIN r.static_routes THEN r.static_routes[path] ELSE NoRule
        i == FirstDynamic(r.dynamic_patterns, path)
    IN IF ~Falsy(static_hit) THEN [rule_args |-> static_hit, url_args |-> EmptyMap]
       ELSE IF i = 0 THEN [rule_args |-> NoRule, url_args |-> EmptyMap]
       ELSE [rule_args |-> r.dynamic_routes[r.dynamic_patterns[i]],
             url_args |-> ReMatch(r.dynamic_patterns[i], path)[1]]

\* lines 120-125: apply the decoders in order; stops at the first that raises
RECURSIVE ApplyFilters(_, _)
ApplyFilters(fs, url_args) ==
    IF fs = <<>> THEN [ok |-> TRUE, exc |-> "", url_args |-> url_args]
    ELSE LET f == Head(fs)
             res == ApplyFilter(f.f, url_args[f.name].s)
         IN IF res.ok
            THEN ApplyFilters(Tail(fs), [url_args EXCEPT ![f.name] = res.val])
            ELSE [ok |-> FALSE, exc |-> res.exc, url_args |-> url_args]

\* defaults written over the captured values
MergeDefaultsOverCaptured(url_args, defaults) ==
    [k \in DOMAIN url_args \cup DOMAIN defaults |->
        IF k \in DOMAIN defaults THEN defaults[k] ELSE url_args[k]]

\* lines 126-128
MergeDefaults(url_args, defaults) ==
    [k \in DOMAIN url_args \cup DOMAIN defaults |->
        IF k \in DOMAIN url_args THEN url_args[k] ELSE defaults[k]]

RawArgs(url_args) == [k \in DOMAIN url_args |-> StrVal(url_args[k])]

NoValidMethods == [none |-> TRUE, items |-> <<>>]

\* an exception object: its class, the HTTP status code of the class (0 for
\* a class outside HTTPException), the first positional argument of
\* MethodNotAllowed kept as what iterating it yields, the description, and
\* the function that raised it
Exc(type, code, valid_methods, description, by) ==
    [type |-> type, code |-> code, valid_methods |-> valid_methods,
     description |-> description, by |-> by]

NoExc == Exc("", 0, NoValidMethods, <<>>, "")

\* line 111: NotFound("Not found: " + repr(path))
NotFoundExc(path) ==
    Exc("NotFound", 404, NoValidMethods, <<"Not found: ", "'">> \o path \o <<"'">>, "Router.match")

\* line 125: BadRequest('Path has wrong format.')
BadRequestExc == Exc("BadRequest", 400, NoValidMethods, <<"Path has wrong format.">>, "Router.match")

\* an exception of a decoder that match does not catch
OtherExc(t) == Exc(t, 0, NoValidMethods, <<>>, "wildcard_filter")

MethodNotAllowedMsg ==
    <<"M","e","t","h","o","d"," ","n","o","t"," ","a","l","l","o","w","e","d","."," ",
      "A","l","l","o","w","e","d"," ","m","e","t","h","o","d","s",":"," ">>

\* line 114
AllowHeader(rule_args) == Join(<<",">>, Sorted(DOMAIN rule_args))

\* a missing method reported as a missing path
MethodNotAllowedAsNotFound(rule_args) == NotFoundExc(<<>>)

\* line 115: MethodNotAllowed("Method not allowed. Allowed methods: %s" % allow_header)
MethodNotAllowedExc(rule_args) ==
    Exc("MethodNotAllowed", 405,
        [none |-> FALSE, items |-> IterStr(MethodNotAllowedMsg \o AllowHeader(rule_args))],
        <<"The method is not allowed for the requested URL.">>, "Router.match")

Raise(e) == [kind |-> "raise", exc |-> e, endpoint |-> <<>>, url_args |-> EmptyMap]
Return(endpoint, url_args) == [kind |-> "return", exc |-> NoExc, endpoint |-> endpoint, url_args |-> url_args]

\* Router.match(path, method)
RouterMatch(r, path, method) ==
    LET sel == SelectRule(r, path)
        rule_args == sel.rule_args
    IN IF Falsy(rule_args) THEN Raise(NotFoundExc(path))
       ELSE IF method \notin DOMAIN rule_args THEN Raise(MethodNotAllowedExc(rule_args))
       ELSE LET args == rule_args[method]
                conv == ApplyFilters(args.filters, RawArgs(sel.url_args))
            IN IF ~conv.ok
               THEN (IF conv.exc = "ValueError" THEN Raise(BadRequestExc) ELSE Raise(OtherExc(conv.exc)))
               ELSE Return(args.endpoint, MergeDefaults(conv.url_args, args.defaults))

----------------------------------------------------------------------------
(* Inputs *)

GET == <<"G","E","T">>
POST == <<"P","O","S","T">>

\* request methods handed to match
Methods == {GET, POST}

MethodSets == {{GET}, {POST}, {GET, POST}}

Paths == {<<"/","a">>, <<"/","1">>, <<"/",".">>, <<"/","a","/","b">>}

RuleA == <<Lit("/"), Lit("a")>>
RuleName == <<Lit("/"), Wild("", "name")>>
RuleInt == <<Lit("/"), Wild("int", "n")>>
RuleFloat == <<Lit("/"), Wild("float", "x")>>
RuleCustom == <<Lit("/"), Wild("custom", "name")>>

NoDefaults == EmptyMap
SomeDefaults == [k \in {"name", "foo"} |-> IF k = "name" THEN StrVal(<<"b","a","r">>) ELSE IntVal(1234)]

AddCall(rule, methods, defaults) == [rule |-> rule, methods |-> methods, defaults |-> defaults]

\* the add calls the router is built from: every method set on a literal
\* rule and on two overlapping wildcard rules, and the converters and
\* defaults on GET rules
AddCalls ==
    {AddCall(r, ms, NoDefaults) : r \in {RuleA, RuleName, RuleFloat}, ms \in MethodSets}
    \cup {AddCall(r, {GET}, SomeDefaults) : r \in {RuleA, RuleName}}
    \cup {AddCall(r, {GET}, NoDefaults) : r \in {RuleInt, RuleCustom}}

\* the k-th add call names the endpoint ek
EndpointName(k) == <<"e", Digits[k + 1]>>

----------------------------------------------------------------------------
(* Application state (Cocopot.__init__) and the context stack *)

\* the key None of the hook and error handler dictionaries, and the
\* blueprint of a request outside every blueprint
NoneKey == <<"None">>

NoHandlers == [codes |-> [c \in {} |-> ""], types |-> <<>>]

NoCtx == <<"None", 0>>

InitApp ==
    /\ view_functions = [e \in {} |-> ""]
    /\ before_request_funcs = [k \in {} |-> <<>>]
    /\ after_request_funcs = [k \in {} |-> <<>>]
    /\ teardown_request_funcs = [k \in {} |-> <<>>]
    /\ error_handler_spec = [k \in {NoneKey} |-> NoHandlers]
    /\ request_ctx_stack = <<>>
    /\ deferred_functions = [b \in {} |-> <<>>]
    /\ blueprints = {}
    /\ g = [c \in {} |-> {}]

----------------------------------------------------------------------------
(* The router as a value, and the operations on it *)

router == [static_routes |-> static_routes, dynamic_patterns |-> dynamic_patterns,
           dynamic_routes |-> dynamic_routes, strict_order |-> strict_order,
           filters |-> filters]

SetRouter(r) ==
    /\ static_routes' = r.static_routes
    /\ dynamic_patterns' = r.dynamic_patterns
    /\ dynamic_routes' = r.dynamic_routes
    /\ strict_order' = r.strict_order
    /\ filters' = r.filters

NoResult == [op |-> "none", path |-> <<>>, method |-> <<>>, out |-> Return(<<>>, EmptyMap)]

\* Router(strict)
InitRouter ==
    /\ static_routes = [p \in {} |-> NoRule]
    /\ dynamic_patterns = <<>>
    /\ dynamic_routes = [p \in {} |-> NoRule]
    /\ strict_order \in BOOLEAN
    /\ filters = BuiltinFilters
    /\ added = <<>>
    /\ result = NoResult
    /\ InitApp

\* Router.add_filter(name, func) with a converter decoding by func
AddFilter(name, decoder) ==
    /\ name \notin DOMAIN filters
    /\ filters' = [n \in DOMAIN filters \cup {name} |->
                      IF n = name THEN [mask |-> "[^/]+", in_filter |-> decoder] ELSE filters[n]]
    /\ result' = [NoResult EXCEPT !.op = "add_filter"]
    /\ UNCHANGED <<static_routes, dynamic_patterns, dynamic_routes, strict_order, added>>
    /\ UNCHANGED <<appVars, request_ctx_stack>>

\* Router.add(rule, endpoint, methods, defaults)
Add(rule, endpoint, methods, defaults) ==
    /\ Len(added) < MaxAdds
    /\ UNCHANGED <<appVars, request_ctx_stack>>
    /\ IF UnknownConverters(filters, rule) # {}
       THEN /\ result' = [NoResult EXCEPT !.op = "add", !.out = Raise(OtherExc("KeyError"))]
            /\ UNCHANGED <<routerVars, added>>
       ELSE /\ SetRouter(RouterAdd(router, rule, endpoint, methods, defaults))
            /\ added' = Append(added, [rule |-> rule, endpoint |-> endpoint,
                                        methods |-> {Upper(m) : m \in methods},
                                        defaults |-> defaults,
                                        args |-> RuleArgs(filters, rule, endpoint, defaults)])
            /\ result' = [NoResult EXCEPT !.op = "add"]

\* the captured keys are also assigned in the defaults dict of the rule
WrittenByMatchIntoDefaults(r, path, method) ==
    LET sel == SelectRule(r, path)
    IN IF Falsy(sel.rule_args) \/ method \notin DOMAIN sel.rule_args
       THEN [url_args |-> {}, stored |-> {}]
       ELSE [url_args |-> DOMAIN sel.url_args \cup DOMAIN sel.rule_args[method].defaults,
             stored |-> DOMAIN sel.url_args]

\* the keys match assigns, by the dict they are assigned in: lines 123 and
\* 128 assign in url_args, a dict made by the call (line 101, or groupdict
\* in line 106); the dicts stored in the router are only read
WrittenByMatch(r, path, method) ==
    LET sel == SelectRule(r, path)
    IN IF Falsy(sel.rule_args) \/ method \notin DOMAIN sel.rule_args
       THEN [url_args |-> {}, stored |-> {}]
       ELSE [url_args |-> {sel.rule_args[method].filters[i].name :
                               i \in 1..Len(sel.rule_args[method].filters)}
                          \cup (DOMAIN sel.rule_args[method].defaults \ DOMAIN sel.url_args),
             stored |-> {}]

\* the defaults of a stored rule after the captured values were assigned in
\* it under the keys
DefaultsWritten(args, url_args, keys) ==
    [args EXCEPT !.defaults =
        [k \in DOMAIN args.defaults \cup keys |->
            IF k \in keys THEN StrVal(url_args[k]) ELSE args.defaults[k]]]

\* the router after match(path, method) has made the assignments written
RouterAfterMatch(r, path, method, written) ==
    LET sel == SelectRule(r, path)
        i == FirstDynamic(r.dynamic_patterns, path)
        rules == [m \in DOMAIN sel.rule_args |->
                     IF m = method
                     THEN DefaultsWritten(sel.rule_args[m], sel.url_args, written.stored)
                     ELSE sel.rule_args[m]]
    IN IF written.stored = {} THEN r
       ELSE IF path \in DOMAIN r.static_routes /\ ~Falsy(r.static_routes[path])
       THEN [r EXCEPT !.static_routes[path] = rules]
       ELSE [r EXCEPT !.dynamic_routes[r.dynamic_patterns[i]] = rules]

\* Router.match(path, method)
Match(path, method) ==
    /\ result' = [op |-> "match", path |-> path, method |-> method,
                  out |-> RouterMatch(router, path, method)]
    /\ SetRouter(RouterAfterMatch(router, path, method, WrittenByMatch(router, path, method)))
    /\ UNCHANGED <<added, appVars, request_ctx_stack>>

NextRouter ==
    \/ \E name \in {"custom"}, d \in CustomDecoders : AddFilter(name, d)
    \/ \E c \in AddCalls : Add(c.rule, EndpointName(Len(added) + 1), c.methods, c.defaults)
    \/ \E p \in Paths, m \in Methods : Match(p, m)

SpecRouter == InitRouter /\ [][NextRouter]_vars

----------------------------------------------------------------------------
(* Router properties, stated over the history of add calls *)

IsMatch == result.op = "match"

Returned == IsMatch /\ result.out.kind = "return"

Raised(t) == IsMatch /\ result.out.kind = "raise" /\ result.out.exc.type = t

\* the add calls whose pattern matches the path
AddsMatching(path) == {i \in 1..Len(added) : Matches(added[i].args.pattern, path)}

\* the add calls kept in the static map, and those kept in the dynamic list
StaticAdds == {i \in 1..Len(added) : StoresStatic(strict_order, added[i].rule)}
DynamicAdds == (1..Len(added)) \ StaticAdds

\* the add call that owns the static entry of the path, 0 when there is none
StaticOwner(path) ==
    LET own == {i \in StaticAdds : RuleText(added[i].rule) = path}
    IN IF own = {} THEN 0 ELSE Max(own)

\* the first dynamic add call matching the path, 0 when there is none
FirstDynamicAdd(path) ==
    LET hits == AddsMatching(path) \cap DynamicAdds
    IN IF hits = {} THEN 0 ELSE Min(hits)

\* the last add call with the same pattern as add call i
LastWithPattern(i) ==
    Max({j \in DynamicAdds : added[j].args.pattern = added[i].args.pattern})

\* C3: match raises NotFound exactly when no added rule matches the path, and
\* raises MethodNotAllowed, not NotFound, when rules match the path but none
\* of them has the method
C3_NotFoundVsMethodNotAllowed ==
    IsMatch =>
        LET hits == AddsMatching(result.path)
        IN /\ Raised("NotFound") <=> hits = {}
           /\ (hits # {} /\ \A i \in hits : result.method \notin added[i].methods)
                  => Raised("MethodNotAllowed")

C3_Witness ==
    /\ Raised("MethodNotAllowed")
    /\ AddsMatching(result.path) # {}
    /\ \E i \in 1..Len(added) : ~Matches(added[i].args.pattern, result.path)

\* C4: in a non-strict router a path that is a static rule and is also matched
\* by a dynamic rule resolves to the static rule's endpoint for a method the
\* static rule has, in either order of the two add calls
C4_StaticPrecedence ==
    (IsMatch /\ ~strict_order) =>
        LET s == StaticOwner(result.path)
            d == FirstDynamicAdd(result.path)
        IN (s # 0 /\ d # 0 /\ result.method \in added[s].methods)
              => Returned /\ result.out.endpoint = added[s].endpoint

C4_Witness ==
    /\ Returned /\ ~strict_order
    /\ StaticOwner(result.path) # 0 /\ FirstDynamicAdd(result.path) # 0
    /\ FirstDynamicAdd(result.path) < StaticOwner(result.path)
    /\ result.method \in added[FirstDynamicAdd(result.path)].methods
    /\ result.out.endpoint = added[StaticOwner(result.path)].endpoint

\* the path is resolved by the dynamic rules: no static entry takes it
ResolvedDynamically(path) == StaticOwner(path) = 0 /\ FirstDynamicAdd(path) # 0

\* C5 as stated: of the dynamic rules matching a path the one added first
\* gives the endpoint, also when a later rule repeats its rule string
C5_FirstAddedWins ==
    (IsMatch /\ ResolvedDynamically(result.path)) =>
        LET d == FirstDynamicAdd(result.path)
        IN result.method \in added[d].methods =>
              (Returned => result.out.endpoint = added[d].endpoint)

\* C5 as the code has it: the first pattern in the list that matches decides,
\* and the rule stored for it is the one of the last add call with that
\* pattern
C5_FirstPatternWins ==
    (IsMatch /\ ResolvedDynamically(result.path)) =>
        LET d == LastWithPattern(FirstDynamicAdd(result.path))
        IN IF result.method \in added[d].methods
           THEN /\ ~Raised("NotFound") /\ ~Raised("MethodNotAllowed")
                /\ Returned => result.out.endpoint = added[d].endpoint
           ELSE Raised("MethodNotAllowed")

C5_Witness ==
    /\ Returned /\ ResolvedDynamically(result.path)
    /\ \E j \in AddsMatching(result.path) \cap DynamicAdds :
          /\ j > FirstDynamicAdd(result.path)
          /\ added[j].args.pattern # added[FirstDynamicAdd(result.path)].args.pattern
          /\ result.method \in added[j].methods
    /\ result.out.endpoint = added[FirstDynamicAdd(result.path)].endpoint

\* the add call a returned endpoint comes from (the k-th add call names ek)
AddOf(endpoint) == CHOOSE i \in 1..Len(added) : added[i].endpoint = endpoint

\* the text each wildcard of add call i captures from the path
Captured(i, path) ==
    IF i \in StaticAdds THEN EmptyMap ELSE ReMatch(added[i].args.pattern, path)[1]

\* C6: the returned params are the captured wildcards and the defaults of the
\* keys not captured; a key in both carries the captured text, decoded
C6_DefaultsMerge ==
    Returned =>
        LET a == added[AddOf(result.out.endpoint)]
            cap == Captured(AddOf(result.out.endpoint), result.path)
            params == result.out.url_args
            decoder(k) == {i \in 1..Len(a.args.filters) : a.args.filters[i].name = k}
        IN /\ DOMAIN params = DOMAIN cap \cup DOMAIN a.defaults
           /\ \A k \in DOMAIN cap :
                 IF decoder(k) = {} THEN params[k] = StrVal(cap[k])
                 ELSE \A i \in decoder(k) : params[k] = ApplyFilter(a.args.filters[i].f, cap[k]).val
           /\ \A k \in DOMAIN a.defaults \ DOMAIN cap : params[k] = a.defaults[k]

C6_Witness ==
    /\ Returned
    /\ LET a == added[AddOf(result.out.endpoint)]
           cap == Captured(AddOf(result.out.endpoint), result.path)
       IN /\ DOMAIN cap \cap DOMAIN a.defaults # {}
          /\ DOMAIN a.defaults \ DOMAIN cap # {}
          /\ \E k \in DOMAIN cap \cap DOMAIN a.defaults : result.out.url_args[k] # a.defaults[k]

\* the rule match works with, and whether one of its decoders rejects the
\* text it is given
DecoderRejects(path, method) ==
    LET sel == SelectRule(router, path)
    IN /\ method \in DOMAIN sel.rule_args
       /\ \E i \in 1..Len(sel.rule_args[method].filters) :
             LET f == sel.rule_args[method].filters[i]
             IN ~ApplyFilter(f.f, sel.url_args[f.name]).ok

\* C7: a decoder rejecting the captured text makes match raise BadRequest and
\* nothing else
C7_DecoderFailureIsBadRequest ==
    (IsMatch /\ DecoderRejects(result.path, result.method)) => Raised("BadRequest")

----------------------------------------------------------------------------
(* Responses and the values view functions, hooks and handlers return *)

Header(name, value) == [name |-> name, value |-> value]

Resp(status, headers, body) == [status |-> status, headers |-> headers, body |-> body]

NoResp == Resp(0, <<>>, <<>>)

RV(t, body, exc, resp) == [t |-> t, body |-> body, exc |-> exc, resp |-> resp]

NoneRV == RV("None", <<>>, NoExc, NoResp)
StrRV(body) == RV("str", body, NoExc, NoResp)
ExcRV(e) == RV("HTTPException", <<>>, e, NoResp)
RespRV(r) == RV("Response", <<>>, NoExc, r)
ObjectRV == RV("object", <<>>, NoExc, NoResp)

IsHTTPException(e) == e.code # 0

\* isinstance(e, guard) for the exception classes of the model
IsInstance(e, guard) ==
    \/ guard = "Exception"
    \/ guard = e.type
    \/ guard = "HTTPException" /\ IsHTTPException(e)
    \/ guard = "LookupError" /\ e.type = "KeyError"

\* HTTPException.get_headers and MethodNotAllowed.get_headers
GetHeaders(e) ==
    <<Header("Content-Type", <<"text/plain">>)>> \o
    (IF e.type = "MethodNotAllowed" /\ ~e.valid_methods.none /\ e.valid_methods.items # <<>>
     THEN <<Header("Allow", Join(<<",", " ">>, e.valid_methods.items))>>
     ELSE <<>>)

\* HTTPException.get_body
GetBody(e) == e.description

\* InternalServerError()
InternalServerError ==
    Exc("InternalServerError", 500, NoValidMethods,
        <<"The server encountered an internal error and was unable to complete your request.  Either the server is overloaded or there is an error in the application.">>,
        "handle_exception")

\* the outcome of a call: an exception raised or a value returned, with the
\* calls of user functions made so far
Done(rv, calls) == [raised |-> FALSE, exc |-> NoExc, rv |-> rv, calls |-> calls]
Thrown(e, calls) == [raised |-> TRUE, exc |-> e, rv |-> NoneRV, calls |-> calls]

\* None is taken as the empty text
MakeResponseOfNone(rv, calls) ==
    CASE rv.t = "None" -> Done(RespRV(Resp(200, <<>>, <<>>)), calls)
      [] rv.t = "str" -> Done(RespRV(Resp(200, <<>>, rv.body)), calls)
      [] rv.t = "HTTPException" ->
            Done(RespRV(Resp(rv.exc.code, GetHeaders(rv.exc), GetBody(rv.exc))), calls)
      [] rv.t = "Response" -> Done(rv, calls)
      [] OTHER ->
            Thrown(Exc("ValueError", 0, NoValidMethods,
                       <<"View function returns must be Response or text">>, "make_response"), calls)

\* make_response(rv)
MakeResponse(rv, calls) ==
    CASE rv.t = "None" ->
            Thrown(Exc("ValueError", 0, NoValidMethods,
                       <<"View function did not return a response">>, "make_response"), calls)
      [] rv.t = "str" -> Done(RespRV(Resp(200, <<>>, rv.body)), calls)
      [] rv.t = "HTTPException" ->
            Done(RespRV(Resp(rv.exc.code, GetHeaders(rv.exc), GetBody(rv.exc))), calls)
      [] rv.t = "Response" -> Done(rv, calls)
      [] OTHER ->
            Thrown(Exc("ValueError", 0, NoValidMethods,
                       <<"View function returns must be Response or text">>, "make_response"), calls)

----------------------------------------------------------------------------
(* The functions an application registers *)

NotFoundDescription ==
    <<"The requested URL was not found on the server.  If you entered the URL manually please check your spelling and try again.">>

\* before-request and teardown functions that return None
PassingHooks == {"before_one", "before_two", "before_app", "before_blueprint",
                 "before_other", "teardown_deferred"}

\* after-request functions that return a new response: the one they are
\* given with their name added to its body
MarkingHooks == {"after_one", "after_two", "after_app", "after_blueprint", "after_other"}

\* what a registered function does when called with arg (the response for
\* an after-request hook)
UserFunction(fn, arg) ==
    CASE fn = "view_ok" -> Done(StrRV(<<"o","k">>), <<>>)
      [] fn = "view_error" ->
            Thrown(Exc("KeyError", 0, NoValidMethods, <<>>, fn), <<>>)
      [] fn = "view_abort" ->
            Thrown(Exc("NotFound", 404, NoValidMethods, NotFoundDescription, fn), <<>>)
      [] fn = "before_pass" -> Done(NoneRV, <<>>)
      [] fn = "before_stop" -> Done(StrRV(<<"before_request_return">>), <<>>)
      [] fn = "teardown_one" -> Done(NoneRV, <<>>)
      [] fn = "teardown_two" -> Done(NoneRV, <<>>)
      [] fn = "teardown_blueprint" -> Done(NoneRV, <<>>)
      [] fn = "teardown_fail" ->
            Thrown(Exc("RuntimeError", 0, NoValidMethods, <<>>, fn), <<>>)
      [] fn = "after_keep" -> Done(arg, <<>>)
      [] fn = "handle_error" -> Done(StrRV(<<"handled">>), <<>>)
      [] fn = "handle_blueprint" -> Done(StrRV(<<"handled_blueprint">>), <<>>)
      [] fn = "handle_any" -> Done(StrRV(<<"handled_any">>), <<>>)
      [] fn = "view_fail" ->
            Thrown(Exc("RuntimeError", 0, NoValidMethods, <<"secret">>, fn), <<>>)
      [] fn = "before_abort" ->
            Thrown(Exc("NotFound", 404, NoValidMethods, NotFoundDescription, fn), <<>>)
      [] fn = "view_none" -> Done(NoneRV, <<>>)
      [] fn = "view_object" -> Done(ObjectRV, <<>>)
      [] fn = "view_response" -> Done(RespRV(Resp(201, <<>>, <<"created">>)), <<>>)
      [] fn = "view_value" ->
            Done(ExcRV(Exc("NotFound", 404, NoValidMethods, NotFoundDescription, fn)), <<>>)
      [] fn \in PassingHooks -> Done(NoneRV, <<>>)
      [] fn \in MarkingHooks ->
            Done(RespRV([arg.resp EXCEPT !.body = Append(arg.resp.body, fn)]), <<>>)

\* a call of a user function as the log keeps it
CallOf(kind, fn, exc, args) == [kind |-> kind, fn |-> fn, exc |-> exc, args |-> args]

\* calls fn, logs the call, and gives its outcome
Call(kind, fn, exc, args, arg, calls) ==
    LET o == UserFunction(fn, arg)
    IN [o EXCEPT !.calls = Append(calls, CallOf(kind, fn, exc, args))]

\* d.get(key, ()) on a dictionary of lists
FuncsOf(d, key) == IF key \in DOMAIN d THEN d[key] ELSE <<>>

\* the endpoint is split at its first dot
BlueprintAtFirstDot(endpoint) ==
    LET dots == {i \in 1..Len(endpoint) : endpoint[i] = "."}
    IN IF dots = {} THEN NoneKey
       ELSE SubSeq(endpoint, 1, (CHOOSE i \in dots : \A j \in dots : i <= j) - 1)

\* Request.blueprint: endpoint.rsplit('.', 1)[0] when the endpoint has a dot
Blueprint(endpoint) ==
    LET dots == {i \in 1..Len(endpoint) : endpoint[i] = "."}
    IN IF dots = {} THEN NoneKey ELSE SubSeq(endpoint, 1, Max(dots) - 1)

----------------------------------------------------------------------------
(* Cocopot: dispatch of one request *)

app == [view_functions |-> view_functions,
        before_request_funcs |-> before_request_funcs,
        after_request_funcs |-> after_request_funcs,
        teardown_request_funcs |-> teardown_request_funcs,
        error_handler_spec |-> error_handler_spec,
        router |-> router]

\* the loop goes on after a function has returned a value
RECURSIVE RunBeforeIgnoringValues(_, _)
RunBeforeIgnoringValues(funcs, calls) ==
    IF funcs = <<>> THEN Done(NoneRV, calls)
    ELSE LET o == Call("before_request", Head(funcs), NoExc, EmptyMap, NoneRV, calls)
         IN IF o.raised THEN o
            ELSE RunBeforeIgnoringValues(Tail(funcs), o.calls)

\* preprocess_request: the loop over the before-request functions
RECURSIVE RunBefore(_, _)
RunBefore(funcs, calls) ==
    IF funcs = <<>> THEN Done(NoneRV, calls)
    ELSE LET o == Call("before_request", Head(funcs), NoExc, EmptyMap, NoneRV, calls)
         IN IF o.raised \/ o.rv.t # "None" THEN o
            ELSE RunBefore(Tail(funcs), o.calls)

\* the functions of the blueprint run before the global ones
PreprocessRequestBlueprintFirst(a, bp, calls) ==
    RunBefore((IF bp # NoneKey /\ bp \in DOMAIN a.before_request_funcs
               THEN a.before_request_funcs[bp] ELSE <<>>) \o
              FuncsOf(a.before_request_funcs, NoneKey),
              calls)

\* preprocess_request
PreprocessRequest(a, bp, calls) ==
    RunBefore(FuncsOf(a.before_request_funcs, NoneKey) \o
              (IF bp # NoneKey /\ bp \in DOMAIN a.before_request_funcs
               THEN a.before_request_funcs[bp] ELSE <<>>),
              calls)

\* error_handler_spec.get(key), an absent key read as no handlers
HandlersOf(a, key) ==
    IF key \in DOMAIN a.error_handler_spec THEN a.error_handler_spec[key] ELSE NoHandlers

\* the handlers of the application are looked up before the blueprint's
HandleHttpExceptionAppFirst(a, bp, e, calls) ==
    LET handler == IF e.code \in DOMAIN HandlersOf(a, NoneKey).codes
                   THEN HandlersOf(a, NoneKey).codes[e.code]
                   ELSE IF e.code \in DOMAIN HandlersOf(a, bp).codes
                        THEN HandlersOf(a, bp).codes[e.code]
                        ELSE ""
    IN IF handler = "" THEN Done(ExcRV(e), calls)
       ELSE Call("errorhandler", handler, e, EmptyMap, NoneRV, calls)

\* handle_http_exception
HandleHttpException(a, bp, e, calls) ==
    LET handlers == HandlersOf(a, bp)
        handler == IF e.code \in DOMAIN handlers.codes THEN handlers.codes[e.code]
                   ELSE IF e.code \in DOMAIN HandlersOf(a, NoneKey).codes
                        THEN HandlersOf(a, NoneKey).codes[e.code]
                        ELSE ""
    IN IF handler = "" THEN Done(ExcRV(e), calls)
       ELSE Call("errorhandler", handler, e, EmptyMap, NoneRV, calls)

\* the handlers of the application are searched before the blueprint's
HandleUserExceptionAppFirst(a, bp, e, calls) ==
    IF IsHTTPException(e) THEN HandleHttpException(a, bp, e, calls)
    ELSE LET chain == HandlersOf(a, NoneKey).types \o HandlersOf(a, bp).types
             hits == {i \in 1..Len(chain) : IsInstance(e, chain[i].guard)}
         IN IF hits = {} THEN Thrown(e, calls)
            ELSE Call("errorhandler", chain[Min(hits)].f, e, EmptyMap, NoneRV, calls)

\* handle_user_exception
HandleUserException(a, bp, e, calls) ==
    IF IsHTTPException(e) THEN HandleHttpException(a, bp, e, calls)
    ELSE LET chain == HandlersOf(a, bp).types \o HandlersOf(a, NoneKey).types
             hits == {i \in 1..Len(chain) : IsInstance(e, chain[i].guard)}
         IN IF hits = {} THEN Thrown(e, calls)
            ELSE Call("errorhandler", chain[Min(hits)].f, e, EmptyMap, NoneRV, calls)

\* the 500 response tells the class and the message of the exception
HandleExceptionTelling(a, e, calls) ==
    IF 500 \in DOMAIN HandlersOf(a, NoneKey).codes
    THEN Call("errorhandler", HandlersOf(a, NoneKey).codes[500], e, EmptyMap, NoneRV, calls)
    ELSE Done(ExcRV(Exc("InternalServerError", 500, NoValidMethods,
                        <<e.type>> \o e.description, "handle_exception")), calls)

\* handle_exception
HandleException(a, e, calls) ==
    IF 500 \in DOMAIN HandlersOf(a, NoneKey).codes
    THEN Call("errorhandler", HandlersOf(a, NoneKey).codes[500], e, EmptyMap, NoneRV, calls)
    ELSE Done(ExcRV(InternalServerError), calls)

\* process_response: the loop over the after-request functions
RECURSIVE RunAfter(_, _, _)
RunAfter(funcs, response, calls) ==
    IF funcs = <<>> THEN Done(response, calls)
    ELSE LET o == Call("after_request", Head(funcs), NoExc, EmptyMap, response, calls)
         IN IF o.raised THEN o ELSE RunAfter(Tail(funcs), o.rv, o.calls)

\* the global functions run before the functions of the blueprint
ProcessResponseGlobalFirst(a, bp, response, calls) ==
    RunAfter(FuncsOf(a.after_request_funcs, NoneKey) \o
             (IF bp # NoneKey /\ bp \in DOMAIN a.after_request_funcs
              THEN a.after_request_funcs[bp] ELSE <<>>),
             response, calls)

\* process_response
ProcessResponse(a, bp, response, calls) ==
    RunAfter((IF bp # NoneKey /\ bp \in DOMAIN a.after_request_funcs
              THEN a.after_request_funcs[bp] ELSE <<>>) \o
             FuncsOf(a.after_request_funcs, NoneKey),
             response, calls)

\* line 473: match is called with the path of the request, its method
\* argument left at the default
DispatchMethod(method) == GET

\* line 477: the view function of the endpoint is called with the view_args
CallView(a, endpoint, view_args, calls) ==
    IF endpoint \notin DOMAIN a.view_functions
    THEN Thrown(Exc("KeyError", 0, NoValidMethods, <<>>, "full_dispatch_request"), calls)
    ELSE Call("view", a.view_functions[endpoint], NoExc, view_args, NoneRV, calls)

\* the endpoint match returned, '' as on a fresh request when it raised
EndpointOf(m) == IF m.kind = "return" THEN m.endpoint ELSE <<>>

\* the exception of match is raised after the before-request functions ran
TryDispatchDeferred(a, m, pre) ==
    IF pre.raised \/ pre.rv.t # "None" THEN pre
    ELSE IF m.kind = "raise" THEN Thrown(m.exc, pre.calls)
    ELSE CallView(a, EndpointOf(m), m.url_args, pre.calls)

\* lines 472-477: the try block, from the outcome m of match and the outcome
\* pre of preprocess_request
TryDispatch(a, m, pre) ==
    IF m.kind = "raise" THEN Thrown(m.exc, <<>>)
    ELSE IF pre.raised \/ pre.rv.t # "None" THEN pre
    ELSE CallView(a, EndpointOf(m), m.url_args, pre.calls)

\* the exception of the try block is not caught
ExceptDispatchUncaught(a, bp, tried) == tried

\* lines 478-479: an exception of the try block goes to handle_user_exception
ExceptDispatch(a, bp, tried) ==
    IF tried.raised THEN HandleUserException(a, bp, tried.exc, tried.calls) ELSE tried

\* line 480: make_response(rv)
MadeOf(rv) == IF rv.raised THEN rv ELSE MakeResponse(rv.rv, rv.calls)

\* line 481: process_response(response)
ProcessedOf(a, bp, made) ==
    IF made.raised THEN made ELSE ProcessResponse(a, bp, made.rv, made.calls)

DispatchOutcome(out, endpoint) ==
    [raised |-> out.raised, exc |-> out.exc, rv |-> out.rv, calls |-> out.calls,
     endpoint |-> endpoint]

\* full_dispatch_request after match, bp the blueprint of the request
DispatchMatched(a, m, bp) ==
    DispatchOutcome(
        ProcessedOf(a, bp,
            MadeOf(ExceptDispatch(a, bp, TryDispatch(a, m, PreprocessRequest(a, bp, <<>>))))),
        EndpointOf(m))

\* match of the request, the request given to the rest of the dispatch
MatchRequest(a, m) == DispatchMatched(a, m, Blueprint(EndpointOf(m)))

\* full_dispatch_request; the outcome also tells the endpoint stored on the
\* request ('' when matching failed)
FullDispatchRequest(a, path, method) ==
    MatchRequest(a, RouterMatch(a.router, path, DispatchMethod(method)))

\* the loop runs over the teardown functions from the last to the first
RECURSIVE RunTeardownReversed(_, _, _)
RunTeardownReversed(funcs, exc, calls) ==
    IF funcs = <<>> THEN Done(NoneRV, calls)
    ELSE LET o == Call("teardown_request", funcs[Len(funcs)], exc, EmptyMap, NoneRV, calls)
         IN IF o.raised THEN o
            ELSE RunTeardownReversed(SubSeq(funcs, 1, Len(funcs) - 1), exc, o.calls)

\* do_teardown_request: the loop over the teardown functions
RECURSIVE RunTeardown(_, _, _)
RunTeardown(funcs, exc, calls) ==
    IF funcs = <<>> THEN Done(NoneRV, calls)
    ELSE LET o == Call("teardown_request", Head(funcs), exc, EmptyMap, NoneRV, calls)
         IN IF o.raised THEN o ELSE RunTeardown(Tail(funcs), exc, o.calls)

\* the teardown functions are called without the error
DoTeardownRequestWithoutError(a, bp, exc, calls) ==
    RunTeardown(FuncsOf(a.teardown_request_funcs, NoneKey) \o
                (IF bp # NoneKey /\ bp \in DOMAIN a.teardown_request_funcs
                 THEN a.teardown_request_funcs[bp] ELSE <<>>),
                NoExc, calls)

\* do_teardown_request
DoTeardownRequest(a, bp, exc, calls) ==
    RunTeardown(FuncsOf(a.teardown_request_funcs, NoneKey) \o
                (IF bp # NoneKey /\ bp \in DOMAIN a.teardown_request_funcs
                 THEN a.teardown_request_funcs[bp] ELSE <<>>),
                exc, calls)

----------------------------------------------------------------------------
(* The context stack and RequestContext *)

\* LocalStack.push, LocalStack.pop and LocalStack.top; pop and top give
\* None on an empty stack
StackPush(stack, x) == Append(stack, x)

StackTop(stack) == IF stack = <<>> THEN NoCtx ELSE stack[Len(stack)]

StackPop(stack) ==
    IF stack = <<>> THEN [rv |-> NoCtx, stack |-> stack]
    ELSE [rv |-> stack[Len(stack)], stack |-> SubSeq(stack, 1, Len(stack) - 1)]

\* RequestContext.push
ContextPush(stack, ctx) == StackPush(stack, ctx)

\* a pop that does not compare the popped context with self
ContextPopUnchecked(stack, ctx) ==
    [raised |-> FALSE, stack |-> StackPop(stack).stack, calls |-> <<>>]

\* RequestContext.pop: the stack is popped, then the popped context is
\* compared with self; pop calls no function of the application
ContextPop(stack, ctx) ==
    LET popped == StackPop(stack)
    IN [raised |-> popped.rv # ctx, stack |-> popped.stack, calls |-> <<>>]

AssertionError(by) == Exc("AssertionError", 0, NoValidMethods, <<>>, by)

\* the context wsgi_app creates for a request entering at this stack
RequestCtx(stack) == <<"request", Len(stack) + 1>>

\* lines 566-568: the error of full_dispatch_request, None without one
ErrorOf(fd) == IF fd.raised THEN fd.exc ELSE NoExc

\* lines 566-569: an exception of full_dispatch_request goes to
\* handle_exception and its value to make_response
ExceptWsgi(a, fd) ==
    IF fd.raised THEN MadeOf(HandleException(a, fd.exc, fd.calls)) ELSE Done(fd.rv, fd.calls)

\* line 572: calling a value that is not a Response is a TypeError
Emitted(made) ==
    IF made.raised \/ made.rv.t = "Response" THEN made
    ELSE Thrown(Exc("TypeError", 0, NoValidMethods, <<>>, "wsgi_app"), made.calls)

\* lines 531-532 and 574: do_teardown_request(error), without a captured
\* error the exception in flight
FinallyTeardown(a, fd, emitted) ==
    DoTeardownRequest(a, Blueprint(fd.endpoint),
                      IF ErrorOf(fd) # NoExc THEN ErrorOf(fd) ELSE emitted.exc,
                      emitted.calls)

\* lines 573-575: what leaves wsgi_app after the finally block
WsgiOutcome(pushed, fd, emitted, torn, popped) ==
    IF torn.raised
    THEN [raised |-> TRUE, exc |-> torn.exc, response |-> NoResp, calls |-> torn.calls,
          stack |-> pushed, endpoint |-> fd.endpoint, error |-> ErrorOf(fd)]
    ELSE IF popped.raised
    THEN [raised |-> TRUE, exc |-> AssertionError("RequestContext.pop"), response |-> NoResp,
          calls |-> torn.calls, stack |-> popped.stack, endpoint |-> fd.endpoint,
          error |-> ErrorOf(fd)]
    ELSE [raised |-> emitted.raised, exc |-> emitted.exc, response |-> emitted.rv.resp,
          calls |-> torn.calls, stack |-> popped.stack, endpoint |-> fd.endpoint,
          error |-> ErrorOf(fd)]

\* lines 573-575: the finally block on the stack the context was pushed on
Finally(a, pushed, ctx, fd, emitted) ==
    WsgiOutcome(pushed, fd, emitted, FinallyTeardown(a, fd, emitted), ContextPop(pushed, ctx))

\* lines 563-575 for the outcome fd of full_dispatch_request
WsgiDispatched(a, stack, ctx, fd) ==
    Finally(a, ContextPush(stack, ctx), ctx, fd, Emitted(ExceptWsgi(a, fd)))

\* wsgi_app: the response or the exception that leaves it, the calls of user
\* functions in order, and the context stack it leaves behind
WsgiApp(a, stack, path, method) ==
    WsgiDispatched(a, stack, RequestCtx(stack), FullDispatchRequest(a, path, method))

----------------------------------------------------------------------------
(* Operations of the application *)

Init ==
    /\ static_routes = [p \in {} |-> NoRule]
    /\ dynamic_patterns = <<>>
    /\ dynamic_routes = [p \in {} |-> NoRule]
    /\ strict_order = FALSE
    /\ filters = BuiltinFilters
    /\ added = <<>>
    /\ result = NoResult
    /\ InitApp

\* the summed length of the lists of a dictionary over the keys K
RECURSIVE TotalLen(_, _)
TotalLen(d, K) ==
    IF K = {} THEN 0
    ELSE LET k == CHOOSE x \in K : TRUE
         IN Len(d[k]) + TotalLen(d, K \ {k})

\* the number of handlers registered under the keys K
RECURSIVE HandlerCount(_, _)
HandlerCount(d, K) ==
    IF K = {} THEN 0
    ELSE LET k == CHOOSE x \in K : TRUE
         IN Cardinality(DOMAIN d[k].codes) + Len(d[k].types) + HandlerCount(d, K \ {k})

\* the number of registrations made so far
SetupSize ==
    Len(added) + TotalLen(before_request_funcs, DOMAIN before_request_funcs)
    + TotalLen(after_request_funcs, DOMAIN after_request_funcs)
    + TotalLen(teardown_request_funcs, DOMAIN teardown_request_funcs)
    + HandlerCount(error_handler_spec, DOMAIN error_handler_spec)

AppResult(op) == [op |-> op, raised |-> FALSE, exc |-> NoExc]

\* add_url_rule(rule, endpoint, view_func, methods): the rule goes to the
\* router first, then the view function is bound to the endpoint
AddUrlRule(rule, endpoint, view_func, methods) ==
    /\ SetupSize < MaxSetup
    /\ SetRouter(RouterAdd(router, rule, endpoint, methods, EmptyMap))
    /\ added' = Append(added, [rule |-> rule, endpoint |-> endpoint,
                                methods |-> {Upper(m) : m \in methods},
                                defaults |-> EmptyMap,
                                args |-> RuleArgs(filters, rule, endpoint, EmptyMap)])
    /\ IF endpoint \in DOMAIN view_functions /\ view_functions[endpoint] # view_func
       THEN /\ result' = [AppResult("add_url_rule") EXCEPT
                              !.raised = TRUE, !.exc = AssertionError("add_url_rule")]
            /\ UNCHANGED view_functions
       ELSE /\ result' = AppResult("add_url_rule")
            /\ view_functions' = [e \in DOMAIN view_functions \cup {endpoint} |->
                                      IF e = endpoint THEN view_func ELSE view_functions[e]]
    /\ UNCHANGED <<before_request_funcs, after_request_funcs, teardown_request_funcs,
                   error_handler_spec, request_ctx_stack, objectVars>>

\* d.setdefault(key, []).append(f)
Appended(d, key, f) ==
    [k \in DOMAIN d \cup {key} |-> IF k = key THEN Append(FuncsOf(d, key), f) ELSE d[k]]

\* d.setdefault(key, []).insert(0, f)
Inserted(d, key, f) ==
    [k \in DOMAIN d \cup {key} |-> IF k = key THEN <<f>> \o FuncsOf(d, key) ELSE d[k]]

\* before_request(f)
BeforeRequest(f) ==
    /\ SetupSize < MaxSetup
    /\ before_request_funcs' = Appended(before_request_funcs, NoneKey, f)
    /\ result' = AppResult("before_request")
    /\ UNCHANGED <<routerVars, added, view_functions, after_request_funcs,
                   teardown_request_funcs, error_handler_spec, request_ctx_stack, objectVars>>

\* teardown_request(f)
TeardownRequest(f) ==
    /\ SetupSize < MaxSetup
    /\ teardown_request_funcs' = Inserted(teardown_request_funcs, NoneKey, f)
    /\ result' = AppResult("teardown_request")
    /\ UNCHANGED <<routerVars, added, view_functions, before_request_funcs,
                   after_request_funcs, error_handler_spec, request_ctx_stack, objectVars>>

\* register_error_handler(code_or_exception, f) with a status code: code is
\* the code, guard is ""; with an exception class: code is 0, guard the class
RegisterErrorHandler(code, guard, f) ==
    /\ SetupSize < MaxSetup
    /\ LET h == error_handler_spec[NoneKey]
       IN error_handler_spec' =
            [error_handler_spec EXCEPT ![NoneKey] =
                IF code # 0
                THEN [h EXCEPT !.codes = [c \in DOMAIN h.codes \cup {code} |->
                                            IF c = code THEN f ELSE h.codes[c]]]
                ELSE [h EXCEPT !.types = Append(h.types, [guard |-> guard, f |-> f])]]
    /\ result' = AppResult("register_error_handler")
    /\ UNCHANGED <<routerVars, added, view_functions, before_request_funcs,
                   after_request_funcs, teardown_request_funcs, request_ctx_stack, objectVars>>

\* app(environ, start_response) for a request of the path with the method
Request(path, method) ==
    /\ Len(request_ctx_stack) < MaxDepth
    /\ \E w \in {WsgiApp(app, request_ctx_stack, path, method)} :
          /\ result' = [op |-> "wsgi_app", path |-> path, method |-> method,
                        raised |-> w.raised, exc |-> w.exc, response |-> w.response,
                        calls |-> w.calls, endpoint |-> w.endpoint, error |-> w.error]
          /\ request_ctx_stack' = w.stack
    /\ UNCHANGED <<routerVars, added, appVars>>

\* ctx.push() on a context created by hand
Push(ctx) ==
    /\ Len(request_ctx_stack) < MaxDepth
    /\ request_ctx_stack' = ContextPush(request_ctx_stack, ctx)
    /\ result' = [op |-> "push", ctx |-> ctx, raised |-> FALSE]
    /\ UNCHANGED <<routerVars, added, appVars>>

\* ctx.pop() on a context created by hand
Pop(ctx) ==
    /\ LET p == ContextPop(request_ctx_stack, ctx)
       IN /\ request_ctx_stack' = p.stack
          /\ result' = [op |-> "pop", ctx |-> ctx, raised |-> p.raised, calls |-> p.calls]
    /\ UNCHANGED <<routerVars, added, appVars>>

----------------------------------------------------------------------------
(* Inputs of the application *)

EndpointIndex == <<"i","n","d","e","x">>
EndpointShow == <<"b","p",".","s","h","o","w">>

UrlRule(rule, endpoint, view_func, methods) ==
    [rule |-> rule, endpoint |-> endpoint, view_func |-> view_func, methods |-> methods]

\* the routes an application declares: a literal route for one method and a
\* wildcard route of a blueprint whose view function fails
UrlRules ==
    {UrlRule(RuleA, EndpointIndex, "view_ok", {GET}),
     UrlRule(RuleA, EndpointIndex, "view_ok", {POST}),
     UrlRule(RuleName, EndpointShow, "view_error", {GET}),
     UrlRule(RuleName, EndpointShow, "view_abort", {GET})}

BeforeFuncs == {"before_pass", "before_stop"}

TeardownFuncs == {"teardown_one", "teardown_two", "teardown_fail"}

ErrorHandlers ==
    {[code |-> 0, guard |-> "KeyError", f |-> "handle_error"],
     [code |-> 500, guard |-> "", f |-> "handle_error"],
     [code |-> 404, guard |-> "", f |-> "handle_error"]}

RequestPaths == {<<"/","a">>, <<"/","1">>, <<"/","a","/","b">>}

Contexts == {<<"A", 0>>, <<"B", 0>>, <<"C", 0>>}

Next ==
    \/ \E u \in UrlRules : AddUrlRule(u.rule, u.endpoint, u.view_func, u.methods)
    \/ \E f \in BeforeFuncs : BeforeRequest(f)
    \/ \E f \in TeardownFuncs : TeardownRequest(f)
    \/ \E h \in ErrorHandlers : RegisterErrorHandler(h.code, h.guard, h.f)
    \/ \E p \in RequestPaths, m \in Methods : Request(p, m)

Spec == Init /\ [][Next]_vars

NextCtx ==
    \/ \E c \in Contexts : Push(c)
    \/ \E c \in Contexts : Pop(c)
    \/ \E f \in TeardownFuncs : TeardownRequest(f)

SpecCtx == Init /\ [][NextCtx]_vars

----------------------------------------------------------------------------
(* Properties of the dispatch *)

IsRequest == result.op = "wsgi_app"

CallsOfKind(kind) == {i \in 1..Len(result.calls) : result.calls[i].kind = kind}

\* the method map match works with for the path
RuleOfPath(path) == SelectRule(router, path).rule_args

\* C1: a request whose path has a rule that does not allow the request's
\* method is answered with 405 and the view function is not called
C1_MethodIsMatched ==
    (IsRequest /\ ~Falsy(RuleOfPath(result.path)) /\ result.method \notin DOMAIN RuleOfPath(result.path))
        => /\ CallsOfKind("view") = {}
           /\ ~result.raised => result.response.status = 405

\* the value of the Allow header among the headers
AllowValues(headers) == {headers[i].value : i \in {j \in 1..Len(headers) : headers[j].name = "Allow"}}

\* C2: the MethodNotAllowed error of match, and the response made from it,
\* carry the Allow header with the sorted methods of the path joined by ","
C2_AllowHeaderListsMethods ==
    Raised("MethodNotAllowed") =>
        LET expected == Join(<<",">>, Sorted(DOMAIN RuleOfPath(result.path)))
            made == MakeResponse(ExcRV(result.out.exc), <<>>)
        IN /\ AllowValues(GetHeaders(result.out.exc)) = {expected}
           /\ ~made.raised /\ made.rv.resp.status = 405
           /\ AllowValues(made.rv.resp.headers) = {expected}

\* the before-request calls of the request that returned a value
StoppingCalls ==
    {i \in CallsOfKind("before_request") : UserFunction(result.calls[i].fn, NoneRV).rv.t # "None"}

\* C8: when a before-request function returns a value the view function is
\* not called and the response is the 200 response with that value as body
C8_HookShortCircuit ==
    IsRequest =>
        \A i \in StoppingCalls :
            /\ CallsOfKind("view") = {}
            /\ ~result.raised =>
                  /\ result.response.body = UserFunction(result.calls[i].fn, NoneRV).rv.body
                  /\ result.response.status = 200

C8_Witness ==
    /\ IsRequest /\ ~result.raised
    /\ result.endpoint \in DOMAIN view_functions
    /\ StoppingCalls # {}
    /\ result.response.body = <<"before_request_return">>

\* the exceptions the view function of the request raised
ViewErrors ==
    {UserFunction(result.calls[i].fn, NoneRV).exc :
        i \in {j \in CallsOfKind("view") : UserFunction(result.calls[j].fn, NoneRV).raised}}

\* no registered handler takes the exception: none for its status code, or,
\* for an exception outside HTTPException, none for its class and none for 500
Unhandled(e) ==
    LET bp == Blueprint(result.endpoint)
        own == IF bp \in DOMAIN error_handler_spec THEN error_handler_spec[bp] ELSE NoHandlers
        top == error_handler_spec[NoneKey]
    IN IF IsHTTPException(e)
       THEN e.code \notin DOMAIN own.codes /\ e.code \notin DOMAIN top.codes
       ELSE /\ \A i \in 1..Len(own.types) : ~IsInstance(e, own.types[i].guard)
            /\ \A i \in 1..Len(top.types) : ~IsInstance(e, top.types[i].guard)
            /\ 500 \notin DOMAIN top.codes

\* the teardown functions registered for the request, global and of its blueprint
TeardownFuncsOfRequest ==
    LET keys == {NoneKey, Blueprint(result.endpoint)} \cap DOMAIN teardown_request_funcs
    IN UNION {{teardown_request_funcs[k][i] : i \in 1..Len(teardown_request_funcs[k])} : k \in keys}

Registrations(f) ==
    LET bp == Blueprint(result.endpoint)
    IN Cardinality({<<k, i>> \in ({NoneKey, bp} \cap DOMAIN teardown_request_funcs) \X (1..MaxSetup + 1) :
                       i <= Len(teardown_request_funcs[k]) /\ teardown_request_funcs[k][i] = f})

Generic500 == Resp(500, <<Header("Content-Type", <<"text/plain">>)>>, GetBody(InternalServerError))

\* every teardown function ran once per registration with the exception e,
\* and the request ended with the generic 500 response
TornDownWith(e) ==
    /\ \A f \in TeardownFuncsOfRequest :
          Cardinality({i \in CallsOfKind("teardown_request") : result.calls[i].fn = f}) = Registrations(f)
    /\ \A i \in CallsOfKind("teardown_request") : result.calls[i].exc = e
    /\ ~result.raised
    /\ result.response = Generic500

----------------------------------------------------------------------------
(* Registrations of a blueprint, as Blueprint.register applies them *)

\* _register_error_handler(key, code_or_exception, f) on the handlers d
RegisteredAt(d, key, code, guard, f) ==
    LET h == IF key \in DOMAIN d THEN d[key] ELSE NoHandlers
    IN [k \in DOMAIN d \cup {key} |->
          IF k # key THEN d[k]
          ELSE IF code # 0
          THEN [h EXCEPT !.codes = [c \in DOMAIN h.codes \cup {code} |->
                                      IF c = code THEN f ELSE h.codes[c]]]
          ELSE [h EXCEPT !.types = Append(h.types, [guard |-> guard, f |-> f])]]

\* Blueprint.errorhandler(code_or_exception)(f) of the blueprint bp: a
\* handler for 500 is refused by the assertion
BlueprintErrorHandler(bp, code, guard, f) ==
    /\ SetupSize < MaxSetup
    /\ IF code = 500
       THEN /\ result' = [AppResult("blueprint_errorhandler") EXCEPT
                              !.raised = TRUE, !.exc = AssertionError("_register_error_handler")]
            /\ UNCHANGED error_handler_spec
       ELSE /\ result' = AppResult("blueprint_errorhandler")
            /\ error_handler_spec' = RegisteredAt(error_handler_spec, bp, code, guard, f)
    /\ UNCHANGED <<routerVars, added, view_functions, before_request_funcs,
                   after_request_funcs, teardown_request_funcs, request_ctx_stack, objectVars>>

\* Blueprint.teardown_request(f) of the blueprint bp
BlueprintTeardownRequest(bp, f) ==
    /\ SetupSize < MaxSetup
    /\ teardown_request_funcs' = Appended(teardown_request_funcs, bp, f)
    /\ result' = AppResult("blueprint_teardown_request")
    /\ UNCHANGED <<routerVars, added, view_functions, before_request_funcs,
                   after_request_funcs, error_handler_spec, request_ctx_stack, objectVars>>

----------------------------------------------------------------------------
(* An application with failing routes and views, and handlers of errors *)

BlueprintName == <<"b","p">>

EndpointFail == <<"f","a","i","l">>

\* a literal route for POST, a float route whose decoder can fail, and the
\* wildcard route of the blueprint with view functions that raise
ErrUrlRules ==
    {UrlRule(RuleA, EndpointIndex, "view_ok", {POST}),
     UrlRule(RuleFloat, EndpointIndex, "view_ok", {GET}),
     UrlRule(RuleName, EndpointShow, "view_error", {GET}),
     UrlRule(RuleName, EndpointShow, "view_abort", {GET}),
     UrlRule(RuleA, EndpointFail, "view_fail", {GET})}

AppErrorHandlers ==
    {[code |-> 404, guard |-> "", f |-> "handle_error"],
     [code |-> 500, guard |-> "", f |-> "handle_error"],
     [code |-> 0, guard |-> "KeyError", f |-> "handle_error"],
     [code |-> 0, guard |-> "LookupError", f |-> "handle_any"]}

BlueprintErrorHandlers ==
    {[code |-> 404, guard |-> "", f |-> "handle_blueprint"],
     [code |-> 500, guard |-> "", f |-> "handle_blueprint"],
     [code |-> 0, guard |-> "LookupError", f |-> "handle_blueprint"]}

ErrRequestPaths == {<<"/","a">>, <<"/","1">>, <<"/",".">>}

NextErr ==
    \/ \E u \in ErrUrlRules : AddUrlRule(u.rule, u.endpoint, u.view_func, u.methods)
    \/ \E h \in AppErrorHandlers : RegisterErrorHandler(h.code, h.guard, h.f)
    \/ \E h \in BlueprintErrorHandlers : BlueprintErrorHandler(BlueprintName, h.code, h.guard, h.f)
    \/ BeforeRequest("before_abort")
    \/ TeardownRequest("teardown_fail")
    \/ \E p \in ErrRequestPaths : Request(p, GET)

SpecErr == Init /\ [][NextErr]_vars

----------------------------------------------------------------------------
(* Properties of the handling of errors *)

\* the outcome of match for the request, as full_dispatch_request calls it
MatchOfRequest == RouterMatch(router, result.path, DispatchMethod(result.method))

\* the routing of the request failed with 404, 405 or 400
RoutingFails ==
    /\ IsRequest
    /\ MatchOfRequest.kind = "raise"
    /\ MatchOfRequest.exc.code \in {400, 404, 405}

\* the response carries the status of the routing error, or is made of the
\* value of the handler registered for that status
RoutingFailureAnswered ==
    LET code == MatchOfRequest.exc.code
        codes == error_handler_spec[NoneKey].codes
    IN /\ ~result.raised
       /\ IF code \in DOMAIN codes
          THEN result.response = Resp(200, <<>>, UserFunction(codes[code], NoneRV).rv.body)
          ELSE result.response.status = code

HookAndViewErrors ==
    {UserFunction(result.calls[i].fn, NoneRV).exc :
        i \in {j \in CallsOfKind("view") \cup CallsOfKind("before_request") :
                  UserFunction(result.calls[j].fn, NoneRV).raised}}

\* the handlers registered for the blueprint of the request and for the
\* application
OwnHandlers ==
    LET bp == Blueprint(result.endpoint)
    IN IF bp \in DOMAIN error_handler_spec THEN error_handler_spec[bp] ELSE NoHandlers

AppHandlers == error_handler_spec[NoneKey]

\* the calls of error handlers of the request, as <<function, exception>>
HandlerCalls ==
    [i \in 1..Cardinality(CallsOfKind("errorhandler")) |->
        LET c == result.calls[CHOOSE j \in CallsOfKind("errorhandler") :
                     Cardinality({k \in CallsOfKind("errorhandler") : k <= j}) = i]
        IN <<c.fn, c.exc>>]

\* the request ended by the one call of the handler f with the exception e
\* and, when wsgi_app returns, the response made of its value
EndedByHandler(f, e) ==
    /\ HandlerCalls = <<(<<f, e>>)>>
    /\ ~result.raised => result.response = Resp(200, <<>>, UserFunction(f, NoneRV).rv.body)

TypeHits(types, e) == {i \in 1..Len(types) : IsInstance(e, types[i].guard)}

EndedUnhandled ==
    /\ IsRequest /\ ~result.raised
    /\ \E e \in ViewErrors : ~IsHTTPException(e) /\ Unhandled(e)

\* C14: two requests in a row that end with the 500 response for unhandled
\* exceptions get the same status, headers and body, whatever the exceptions
C14_Generic500 ==
    [][(EndedUnhandled /\ EndedUnhandled') => result'.response = result.response]_vars

C14_Witness ==
    /\ EndedUnhandled
    /\ result.error.type = "RuntimeError" /\ result.error.description # <<>>
    /\ \E e \in DOMAIN view_functions : view_functions[e] = "view_error"
    /\ result.response.status = 500

----------------------------------------------------------------------------
(* Properties of teardown and of the context stack *)

\* the teardown functions registered for every request
GlobalTeardownFuncs ==
    {FuncsOf(teardown_request_funcs, NoneKey)[i] :
        i \in 1..Len(FuncsOf(teardown_request_funcs, NoneKey))}

\* C15: when a context pushed by hand is popped, every registered teardown
\* function is called
C15_PopRunsTeardown ==
    (result.op = "pop" /\ ~result.raised) =>
        \A f \in GlobalTeardownFuncs :
            \E i \in 1..Len(result.calls) :
                result.calls[i].kind = "teardown_request" /\ result.calls[i].fn = f

----------------------------------------------------------------------------
(* An application whose view functions return the kinds of values *)

ReturningViews == <<"view_ok", "view_value", "view_response", "view_none", "view_object">>

\* every view function under its own endpoint, at the literal route and at
\* the wildcard route
ViewUrlRules ==
    {UrlRule(r, EndpointName(k), ReturningViews[k], {GET}) :
        r \in {RuleA, RuleName}, k \in 1..Len(ReturningViews)}

NextViews ==
    \/ \E u \in ViewUrlRules : AddUrlRule(u.rule, u.endpoint, u.view_func, u.methods)
    \/ \E p \in RequestPaths : Request(p, GET)

SpecViews == Init /\ [][NextViews]_vars

\* the values the view function of the request returned
ViewValues ==
    {UserFunction(result.calls[i].fn, NoneRV).rv :
        i \in {j \in CallsOfKind("view") : ~UserFunction(result.calls[j].fn, NoneRV).raised}}

\* C16: a text returned by the view function becomes the 200 response with
\* that body, an HTTPException value the response with its status code, a
\* Response is passed through, and any other value, None too, is refused
\* with an error and the request ends with the 500 response
C16_ResponseNormalization ==
    IsRequest =>
        \A rv \in ViewValues :
            /\ ~result.raised
            /\ CASE rv.t = "str" ->
                       result.error = NoExc /\ result.response = Resp(200, <<>>, rv.body)
                 [] rv.t = "HTTPException" ->
                       result.error = NoExc /\ result.response.status = rv.exc.code
                 [] rv.t = "Response" ->
                       result.error = NoExc /\ result.response = rv.resp
                 [] OTHER ->
                       result.error.type = "ValueError" /\ result.response.status = 500

C16_Witness ==
    /\ IsRequest /\ ~result.raised
    /\ \E rv \in ViewValues : rv.t = "None"
    /\ result.error.type = "ValueError"
    /\ result.response.status = 500

----------------------------------------------------------------------------
(* Properties of the order of the steps of a request *)

\* the routing of the request failed with 404 or 405
RoutingFailsUnmatched == RoutingFails /\ MatchOfRequest.exc.code \in {404, 405}

\* the before-request functions registered for every request
GlobalBeforeFuncs == FuncsOf(before_request_funcs, NoneKey)

\* the first value a before-request function of every request returns
FirstBeforeValues ==
    {UserFunction(GlobalBeforeFuncs[i], NoneRV).rv :
        i \in {j \in 1..Len(GlobalBeforeFuncs) :
                  /\ UserFunction(GlobalBeforeFuncs[j], NoneRV).rv.t # "None"
                  /\ \A k \in 1..(j - 1) :
                        /\ ~UserFunction(GlobalBeforeFuncs[k], NoneRV).raised
                        /\ UserFunction(GlobalBeforeFuncs[k], NoneRV).rv.t = "None"}}

----------------------------------------------------------------------------
(* An application with teardown functions of the application and of a blueprint *)

TeardownUrlRules ==
    {UrlRule(RuleA, EndpointIndex, "view_ok", {GET}),
     UrlRule(RuleName, EndpointShow, "view_ok", {GET}),
     UrlRule(RuleName, EndpointShow, "view_error", {GET})}

NextTeardown ==
    \/ \E u \in TeardownUrlRules : AddUrlRule(u.rule, u.endpoint, u.view_func, u.methods)
    \/ \E f \in {"teardown_one", "teardown_two"} : TeardownRequest(f)
    \/ BlueprintTeardownRequest(BlueprintName, "teardown_blueprint")
    \/ \E p \in RequestPaths : Request(p, GET)

SpecTeardown == Init /\ [][NextTeardown]_vars

\* the request was dispatched to an endpoint of a blueprint
InBlueprint == IsRequest /\ Blueprint(result.endpoint) # NoneKey

\* the teardown functions registered for the blueprint of the request
BlueprintTeardownFuncs ==
    {FuncsOf(teardown_request_funcs, Blueprint(result.endpoint))[i] :
        i \in 1..Len(FuncsOf(teardown_request_funcs, Blueprint(result.endpoint)))}

\* the calls of the teardown functions in fs
TeardownCallsOf(fs) == {i \in CallsOfKind("teardown_request") : result.calls[i].fn \in fs}

\* every registered teardown function of the request was called, each with
\* the exception wsgi_app caught, None without one
AllTornDown ==
    /\ \A f \in GlobalTeardownFuncs \cup BlueprintTeardownFuncs : TeardownCallsOf({f}) # {}
    /\ \A i \in CallsOfKind("teardown_request") : result.calls[i].exc = result.error

\* C18 as stated: for an endpoint of a blueprint the teardown functions of
\* the blueprint run before those of the application, each with the
\* captured exception
C18_BlueprintTeardownFirst ==
    InBlueprint =>
        /\ AllTornDown
        /\ \A i \in TeardownCallsOf(BlueprintTeardownFuncs),
              j \in TeardownCallsOf(GlobalTeardownFuncs) : i < j

\* C18 as the code has it: the teardown functions of the application run
\* before those of the blueprint, each with the captured exception
C18_GlobalTeardownFirst ==
    InBlueprint =>
        /\ AllTornDown
        /\ \A i \in TeardownCallsOf(GlobalTeardownFuncs),
              j \in TeardownCallsOf(BlueprintTeardownFuncs) : i < j

C18_Witness ==
    /\ InBlueprint
    /\ result.error.type = "KeyError"
    /\ TeardownCallsOf(GlobalTeardownFuncs) # {}
    /\ TeardownCallsOf(BlueprintTeardownFuncs) # {}
    /\ AllTornDown

\* C19: when wsgi_app has finished a request, by returning or by raising,
\* the context stack is as it was before the call
C19_PopUnconditional ==
    [][result'.op = "wsgi_app" => request_ctx_stack' = request_ctx_stack]_vars

----------------------------------------------------------------------------
(* Properties of a static entry that lacks the method *)

\* the dynamic add calls that match the path and have the method
DynamicAddsAllowing(path, method) ==
    {i \in AddsMatching(path) \cap DynamicAdds : method \in added[i].methods}

\* the static entry of the path of the match lacks the method of the match
StaticLacksMethod ==
    /\ IsMatch /\ ~strict_order
    /\ StaticOwner(result.path) # 0
    /\ result.method \notin added[StaticOwner(result.path)].methods

\* C20: when the static entry of the path lacks the method, match
\* goes on to the dynamic rules and returns the first that matches the path
\* and has the method
C20_StaticMissFallsThrough ==
    (StaticLacksMethod /\ DynamicAddsAllowing(result.path, result.method) # {})
        => /\ Returned
           /\ result.out.endpoint =
                  added[Min(DynamicAddsAllowing(result.path, result.method))].endpoint

----------------------------------------------------------------------------
(* Properties of the scan of the dynamic rules *)

\* the positions of the dynamic list whose pattern matches the path
PatternsMatching(path) ==
    {i \in 1..Len(dynamic_patterns) : Matches(dynamic_patterns[i], path)}

\* those of them whose stored rule has the method
PatternsAllowing(path, method) ==
    {i \in PatternsMatching(path) : method \in DOMAIN dynamic_routes[dynamic_patterns[i]]}

\* the methods of all the rules matching the path
MethodsMatching(path) ==
    UNION {DOMAIN dynamic_routes[dynamic_patterns[i]] : i \in PatternsMatching(path)}

\* the path of the match has no static entry and is matched by dynamic rules
ScansDynamic ==
    /\ IsMatch
    /\ result.path \notin DOMAIN static_routes
    /\ PatternsMatching(result.path) # {}

----------------------------------------------------------------------------
(* Properties of the static map across add calls *)

\* the add calls that registered the literal path with the method
StaticAddsOf(path, method) ==
    {i \in StaticAdds : RuleText(added[i].rule) = path /\ method \in added[i].methods}

\* C22: a static rule is owned by its (path, method) pair: match returns the
\* endpoint of the most recent add call that registered the path with the
\* method, whatever later add calls registered the path with other methods
C22_StaticPairOwnership ==
    (IsMatch /\ StaticAddsOf(result.path, result.method) # {})
        => /\ Returned
           /\ result.out.endpoint =
                  added[Max(StaticAddsOf(result.path, result.method))].endpoint

----------------------------------------------------------------------------
(* A router given method names in either case *)

GetLower == <<"g","e","t">>
PostMixed == <<"P","o","s","t">>

\* method arguments of match in upper, lower and mixed case
CaseMethods == {GET, POST, GetLower, PostMixed}

\* add calls naming their methods in upper, lower and mixed case
CaseAddCalls ==
    {AddCall(r, ms, NoDefaults) :
        r \in {RuleA, RuleName}, ms \in {{GET}, {GetLower}, {PostMixed}, {GetLower, POST}}}

NextCase ==
    \/ \E c \in CaseAddCalls : Add(c.rule, EndpointName(Len(added) + 1), c.methods, c.defaults)
    \/ \E p \in Paths, m \in CaseMethods : Match(p, m)

SpecCase == InitRouter /\ [][NextCase]_vars

\* every method a rule is stored under is in upper case
StoredInUpperCase ==
    /\ \A p \in DOMAIN static_routes : \A m \in DOMAIN static_routes[p] : m = Upper(m)
    /\ \A p \in DOMAIN dynamic_routes : \A m \in DOMAIN dynamic_routes[p] : m = Upper(m)

\* C23: method names are normalised on both sides: the rules are stored
\* under upper-case methods, and match(path, m) ends as match(path, upper(m))
\* does
C23_MethodCaseNormalized ==
    /\ StoredInUpperCase
    /\ IsMatch => result.out = RouterMatch(router, result.path, Upper(result.method))

----------------------------------------------------------------------------
(* Blueprint: deferred functions, and register_blueprint running them *)

\* a deferred function as Blueprint.record keeps it: the call it makes on
\* the application when the blueprint is registered
Deferred(op, f, rule, endpoint, methods) ==
    [op |-> op, f |-> f, rule |-> rule, endpoint |-> endpoint, methods |-> methods]

DeferredHook(op, f) == Deferred(op, f, <<>>, <<>>, {})

\* a literal text as the rule it is
LitRule(text) == [i \in 1..Len(text) |-> Lit(text[i])]

\* Blueprint(name, url_prefix='/' + name): the prefix a blueprint is
\* constructed with
UrlPrefixOf(bp) == <<"/">> \o bp

\* the application as the value the deferred functions work on
AppState(r, a, vf, before, after, teardown, raised) ==
    [router |-> r, added |-> a, view_functions |-> vf, before_request_funcs |-> before,
     after_request_funcs |-> after, teardown_request_funcs |-> teardown, raised |-> raised]

\* Cocopot.add_url_rule on the application S: router.add, then the check of
\* the view function of the endpoint
AppAddUrlRule(S, rule, endpoint, view_func, methods) ==
    [S EXCEPT
        !.router = RouterAdd(S.router, rule, endpoint, methods, EmptyMap),
        !.added = Append(S.added, [rule |-> rule, endpoint |-> endpoint,
                                    methods |-> {Upper(m) : m \in methods},
                                    defaults |-> EmptyMap,
                                    args |-> RuleArgs(S.router.filters, rule, endpoint, EmptyMap)]),
        !.raised = endpoint \in DOMAIN S.view_functions
                      /\ S.view_functions[endpoint] # view_func,
        !.view_functions =
            IF endpoint \in DOMAIN S.view_functions /\ S.view_functions[endpoint] # view_func
            THEN S.view_functions
            ELSE [e \in DOMAIN S.view_functions \cup {endpoint} |->
                     IF e = endpoint THEN view_func ELSE S.view_functions[e]]]

\* Blueprint.app_add_url_rule: the rule under the url_prefix of the
\* registration, else of the blueprint; the endpoint under the blueprint's name
BlueprintAppAddUrlRule(S, bp, url_prefix, d) ==
    AppAddUrlRule(S, LitRule(IF url_prefix # <<>> THEN url_prefix ELSE UrlPrefixOf(bp)) \o d.rule,
                  bp \o <<".">> \o d.endpoint, d.f, d.methods)

\* one deferred function called on the application
CallDeferred(S, bp, url_prefix, d) ==
    CASE d.op = "add_url_rule" -> BlueprintAppAddUrlRule(S, bp, url_prefix, d)
      [] d.op = "before_request" ->
            [S EXCEPT !.before_request_funcs = Appended(S.before_request_funcs, bp, d.f)]
      [] d.op = "before_app_request" ->
            [S EXCEPT !.before_request_funcs = Appended(S.before_request_funcs, NoneKey, d.f)]
      [] d.op = "after_request" ->
            [S EXCEPT !.after_request_funcs = Appended(S.after_request_funcs, bp, d.f)]
      [] d.op = "after_app_request" ->
            [S EXCEPT !.after_request_funcs = Appended(S.after_request_funcs, NoneKey, d.f)]
      [] d.op = "teardown_request" ->
            [S EXCEPT !.teardown_request_funcs = Appended(S.teardown_request_funcs, bp, d.f)]

\* Blueprint.register: the deferred functions are called in the order they
\* were recorded; an exception of one of them ends the loop
RECURSIVE BlueprintRegister(_, _, _, _)
BlueprintRegister(S, bp, url_prefix, ds) ==
    IF ds = <<>> \/ S.raised THEN S
    ELSE BlueprintRegister(CallDeferred(S, bp, url_prefix, Head(ds)), bp, url_prefix, Tail(ds))

\* Blueprint.record(func)
Record(bp, d) ==
    /\ Len(FuncsOf(deferred_functions, bp)) < MaxDeferred
    /\ deferred_functions' = Appended(deferred_functions, bp, d)
    /\ result' = AppResult("record")
    /\ UNCHANGED <<routerVars, added, view_functions, before_request_funcs,
                   after_request_funcs, teardown_request_funcs, error_handler_spec,
                   request_ctx_stack, blueprints, g>>

\* Blueprint.add_url_rule(rule, endpoint, view_func, methods=methods)
BlueprintAddUrlRule(bp, rule, endpoint, view_func, methods) ==
    Record(bp, Deferred("add_url_rule", view_func, rule, endpoint, methods))

\* Blueprint.before_request(f)
BlueprintBeforeRequest(bp, f) == Record(bp, DeferredHook("before_request", f))

\* Blueprint.before_app_request(f)
BlueprintBeforeAppRequest(bp, f) == Record(bp, DeferredHook("before_app_request", f))

\* Blueprint.after_request(f)
BlueprintAfterRequest(bp, f) == Record(bp, DeferredHook("after_request", f))

\* Blueprint.after_app_request(f)
BlueprintAfterAppRequest(bp, f) == Record(bp, DeferredHook("after_app_request", f))

\* Blueprint.teardown_request(f), kept until the blueprint is registered
BlueprintTeardownRequestDeferred(bp, f) == Record(bp, DeferredHook("teardown_request", f))

\* the application after the registration of the blueprint bp
SetApp(S, bp) ==
    /\ SetRouter(S.router)
    /\ added' = S.added
    /\ view_functions' = S.view_functions
    /\ before_request_funcs' = S.before_request_funcs
    /\ after_request_funcs' = S.after_request_funcs
    /\ teardown_request_funcs' = S.teardown_request_funcs
    /\ result' = [op |-> "register_blueprint", blueprint |-> bp, raised |-> S.raised,
                  exc |-> IF S.raised THEN AssertionError("add_url_rule") ELSE NoExc]

\* register_blueprint(blueprint, url_prefix=url_prefix), url_prefix '' when
\* the option is not given
RegisterBlueprint(bp, url_prefix) ==
    /\ SetupSize < MaxSetup
    /\ bp \in DOMAIN deferred_functions
    /\ blueprints' = blueprints \cup {bp}
    /\ \E S \in {BlueprintRegister(
                    AppState(router, added, view_functions, before_request_funcs,
                             after_request_funcs, teardown_request_funcs, FALSE),
                    bp, url_prefix, deferred_functions[bp])} : SetApp(S, bp)
    /\ UNCHANGED <<error_handler_spec, request_ctx_stack, deferred_functions, g>>

----------------------------------------------------------------------------
(* An application with global before-request functions and two blueprints *)

OtherName == <<"o">>

EndpointShowLocal == <<"s","h","o","w">>

\* '/bp/a', the route of the blueprint under its url_prefix
PathBlueprintA == <<"/","b","p","/","a">>

\* what is recorded on the blueprints: a route and hooks on one, a hook on
\* the other
BeforeDeferred(bp) ==
    IF bp = BlueprintName
    THEN {Deferred("add_url_rule", "view_ok", RuleA, EndpointShowLocal, {GET}),
          DeferredHook("before_request", "before_blueprint"),
          DeferredHook("before_app_request", "before_app")}
    ELSE {DeferredHook("before_request", "before_other")}

\* the deferred functions recorded on the blueprint so far
Recorded(bp) ==
    {FuncsOf(deferred_functions, bp)[i] : i \in 1..Len(FuncsOf(deferred_functions, bp))}

\* Blueprint.add_url_rule, before_request or before_app_request, by the
\* kind of the deferred function
RecordCall(bp, d) ==
    CASE d.op = "add_url_rule" -> BlueprintAddUrlRule(bp, d.rule, d.endpoint, d.f, d.methods)
      [] d.op = "before_request" -> BlueprintBeforeRequest(bp, d.f)
      [] d.op = "before_app_request" -> BlueprintBeforeAppRequest(bp, d.f)
      [] d.op = "after_request" -> BlueprintAfterRequest(bp, d.f)
      [] d.op = "after_app_request" -> BlueprintAfterAppRequest(bp, d.f)
      [] d.op = "teardown_request" -> BlueprintTeardownRequestDeferred(bp, d.f)

NextBefore ==
    \/ AddUrlRule(RuleA, EndpointIndex, "view_ok", {GET})
    \/ \E f \in {"before_one", "before_two"} :
          /\ \A i \in 1..Len(FuncsOf(before_request_funcs, NoneKey)) :
                before_request_funcs[NoneKey][i] # f
          /\ BeforeRequest(f)
    \/ \E bp \in {BlueprintName, OtherName} : \E d \in BeforeDeferred(bp) \ Recorded(bp) :
          bp \notin blueprints /\ RecordCall(bp, d)
    \/ \E bp \in {BlueprintName, OtherName} : bp \notin blueprints /\ RegisterBlueprint(bp, <<>>)
    \/ \E p \in {<<"/","a">>, PathBlueprintA} : Request(p, GET)

SpecBefore == Init /\ [][NextBefore]_vars

\* the functions called as hooks of the kind, in the order of the calls
RECURSIVE FnsOfKind(_, _)
FnsOfKind(calls, kind) ==
    IF calls = <<>> THEN <<>>
    ELSE (IF Head(calls).kind = kind THEN <<Head(calls).fn>> ELSE <<>>)
         \o FnsOfKind(Tail(calls), kind)

\* s is the beginning of t
IsPrefix(s, t) == Len(s) <= Len(t) /\ SubSeq(t, 1, Len(s)) = s

\* s is the end of t
IsSuffix(s, t) == Len(s) <= Len(t) /\ SubSeq(t, Len(t) - Len(s) + 1, Len(t)) = s

\* the functions the deferred functions of the kind register, in the order
\* they were recorded
RECURSIVE HooksRecorded(_, _)
HooksRecorded(ds, op) ==
    IF ds = <<>> THEN <<>>
    ELSE (IF Head(ds).op = op THEN <<Head(ds).f>> ELSE <<>>) \o HooksRecorded(Tail(ds), op)

\* the request was routed to an endpoint
Routed == IsRequest /\ MatchOfRequest.kind = "return"

\* the before-request functions of a routed request ran in this order: the
\* global list, then the list of the blueprint of its endpoint, and no other
BeforeCallsInListOrder ==
    Routed =>
        FnsOfKind(result.calls, "before_request") =
            FuncsOf(before_request_funcs, NoneKey)
            \o (IF Blueprint(result.endpoint) # NoneKey
                THEN FuncsOf(before_request_funcs, Blueprint(result.endpoint)) ELSE <<>>)

\* a registration puts its functions at the end of the lists: every list
\* is in the order of registration, and the registration of a blueprint adds
\* its before_app_request functions to the global list and its
\* before_request functions to its own list, as recorded
BeforeListsGrowAtTheEnd ==
    /\ \A k \in DOMAIN before_request_funcs' :
          IsPrefix(FuncsOf(before_request_funcs, k), before_request_funcs'[k])
    /\ result'.op = "before_request" =>
          Len(before_request_funcs'[NoneKey]) = Len(FuncsOf(before_request_funcs, NoneKey)) + 1
    /\ (result'.op = "register_blueprint" /\ before_request_funcs' # before_request_funcs) =>
          /\ FuncsOf(before_request_funcs', NoneKey) =
                FuncsOf(before_request_funcs, NoneKey)
                \o HooksRecorded(deferred_functions[result'.blueprint], "before_app_request")
          /\ FuncsOf(before_request_funcs', result'.blueprint) =
                FuncsOf(before_request_funcs, result'.blueprint)
                \o HooksRecorded(deferred_functions[result'.blueprint], "before_request")

\* C24: the before-request functions of a request run in this order: the
\* global ones in the order of their registration, a before_app_request
\* function of a blueprint at the place of the blueprint's registration, then
\* the functions of the blueprint of the endpoint in the order of their
\* registration; functions of another blueprint do not run
C24_BeforeRequestOrder ==
    []BeforeCallsInListOrder /\ [][BeforeListsGrowAtTheEnd]_vars

\* a request to the route of a blueprint ran a global function, then the
\* before_app_request function registered with the blueprint afterwards, then
\* the function of the blueprint, while another blueprint has a function
C24_Witness ==
    /\ Routed /\ ~result.raised
    /\ Blueprint(result.endpoint) = BlueprintName
    /\ FnsOfKind(result.calls, "before_request") = <<"before_one", "before_app", "before_blueprint">>
    /\ FuncsOf(before_request_funcs, OtherName) # <<>>

----------------------------------------------------------------------------
(* An application with global after-request functions and two blueprints *)

\* after_request(f)
AfterRequest(f) ==
    /\ SetupSize < MaxSetup
    /\ after_request_funcs' = Inserted(after_request_funcs, NoneKey, f)
    /\ result' = AppResult("after_request")
    /\ UNCHANGED <<routerVars, added, view_functions, before_request_funcs,
                   teardown_request_funcs, error_handler_spec, request_ctx_stack, objectVars>>

AfterDeferred(bp) ==
    IF bp = BlueprintName
    THEN {Deferred("add_url_rule", "view_ok", RuleA, EndpointShowLocal, {GET}),
          DeferredHook("after_request", "after_blueprint"),
          DeferredHook("after_app_request", "after_app")}
    ELSE {DeferredHook("after_request", "after_other")}

NextAfter ==
    \/ AddUrlRule(RuleA, EndpointIndex, "view_ok", {GET})
    \/ \E f \in {"after_one", "after_two"} :
          /\ \A i \in 1..Len(FuncsOf(after_request_funcs, NoneKey)) :
                after_request_funcs[NoneKey][i] # f
          /\ AfterRequest(f)
    \/ \E bp \in {BlueprintName, OtherName} : \E d \in AfterDeferred(bp) \ Recorded(bp) :
          bp \notin blueprints /\ RecordCall(bp, d)
    \/ \E bp \in {BlueprintName, OtherName} : bp \notin blueprints /\ RegisterBlueprint(bp, <<>>)
    \/ \E p \in {<<"/","a">>, PathBlueprintA} : Request(p, GET)

SpecAfter == Init /\ [][NextAfter]_vars

\* the after-request functions of a routed request ran in this order: the
\* list of the blueprint of its endpoint, then the global list; each was
\* given the response the one before returned, and the response of the last
\* is the one emitted (every function adds its name to the body it is given)
AfterCallsInListOrder ==
    (Routed /\ ~result.raised) =>
        /\ FnsOfKind(result.calls, "after_request") =
              (IF Blueprint(result.endpoint) # NoneKey
               THEN FuncsOf(after_request_funcs, Blueprint(result.endpoint)) ELSE <<>>)
              \o FuncsOf(after_request_funcs, NoneKey)
        /\ result.response.body = <<"o","k">> \o FnsOfKind(result.calls, "after_request")

\* app.after_request puts its function in front of the global list: the
\* functions registered with it run in reverse order of registration
AfterRequestGoesFirst ==
    result'.op = "after_request" =>
        /\ Len(after_request_funcs'[NoneKey]) = Len(FuncsOf(after_request_funcs, NoneKey)) + 1
        /\ IsSuffix(FuncsOf(after_request_funcs, NoneKey), after_request_funcs'[NoneKey])
        /\ \A k \in DOMAIN after_request_funcs' \ {NoneKey} :
              after_request_funcs'[k] = FuncsOf(after_request_funcs, k)

\* C25: the after-request functions of the blueprint of the endpoint run
\* before the global ones, the functions registered with app.after_request
\* run in reverse order of registration, each is given the response the one
\* before returned and the last value returned is the response emitted
C25_AfterRequestOrder ==
    []AfterCallsInListOrder /\ [][AfterRequestGoesFirst]_vars

\* a request to the route of a blueprint ran the function of the blueprint,
\* then two global functions, the one registered last first
C25_Witness ==
    /\ Routed /\ ~result.raised
    /\ Blueprint(result.endpoint) = BlueprintName
    /\ FnsOfKind(result.calls, "after_request") = <<"after_blueprint", "after_two", "after_one">>
    /\ result.response.body = <<"o","k","after_blueprint","after_two","after_one">>

----------------------------------------------------------------------------
(* Blueprints whose endpoints have more than one dot *)

\* Blueprint('bp.s'): a blueprint named with a dot
SubName == <<"b","p",".","s">>

\* '/bp.s/a', the route of the blueprint 'bp.s' under its url_prefix
PathSubA == <<"/","b","p",".","s","/","a">>

DottedDeferred(bp) ==
    IF bp = SubName
    THEN {Deferred("add_url_rule", "view_error", RuleA, EndpointShowLocal, {GET}),
          DeferredHook("before_request", "before_other")}
    ELSE {DeferredHook("before_request", "before_blueprint")}

\* handlers of KeyError registered on the two blueprints
DottedErrorHandlers ==
    {[bp |-> BlueprintName, f |-> "handle_blueprint"], [bp |-> SubName, f |-> "handle_any"]}

NextDotted ==
    \/ AddUrlRule(RuleA, EndpointIndex, "view_ok", {GET})
    \/ BeforeRequest("before_one")
    \/ \E bp \in {BlueprintName, SubName} : \E d \in DottedDeferred(bp) \ Recorded(bp) :
          bp \notin blueprints /\ RecordCall(bp, d)
    \/ \E bp \in {BlueprintName, SubName} : bp \notin blueprints /\ RegisterBlueprint(bp, <<>>)
    \/ \E h \in DottedErrorHandlers :
          HandlersOf(app, h.bp).types = <<>> /\ BlueprintErrorHandler(h.bp, 0, "KeyError", h.f)
    \/ \E p \in {<<"/","a">>, PathSubA} : Request(p, GET)

SpecDotted == Init /\ [][NextDotted]_vars

DotsOf(endpoint) == {i \in 1..Len(endpoint) : endpoint[i] = "."}

\* the endpoint up to its dot at position i
PartBefore(endpoint, i) == SubSeq(endpoint, 1, i - 1)

\* the before-request functions of a routed request are the global ones and
\* those registered under the name, and an exception of the view function
\* goes to the first handler of its class registered under the name, before
\* those of the application
SelectedBy(name) ==
    /\ FnsOfKind(result.calls, "before_request") =
          FuncsOf(before_request_funcs, NoneKey)
          \o (IF name # NoneKey THEN FuncsOf(before_request_funcs, name) ELSE <<>>)
    /\ \A i \in CallsOfKind("errorhandler") :
          /\ name # NoneKey
          /\ HandlersOf(app, name).types # <<>>
          /\ result.calls[i].fn = HandlersOf(app, name).types[1].f
    /\ (name # NoneKey /\ HandlersOf(app, name).types # <<>> /\ ViewErrors # {})
          => CallsOfKind("errorhandler") # {}

\* C26 as stated: the blueprint of a request is the part of its endpoint
\* before the first dot, None for an endpoint without a dot, and its hooks
\* and error handlers are the ones that serve the request
C26_BlueprintBeforeFirstDot ==
    Routed =>
        IF DotsOf(result.endpoint) = {} THEN SelectedBy(NoneKey)
        ELSE SelectedBy(PartBefore(result.endpoint, Min(DotsOf(result.endpoint))))

\* C26 as the code has it: the blueprint of a request is the part of its
\* endpoint before the last dot, None for an endpoint without a dot, and its
\* hooks and error handlers are the ones that serve the request
C26_BlueprintBeforeLastDot ==
    Routed =>
        IF DotsOf(result.endpoint) = {} THEN SelectedBy(NoneKey)
        ELSE SelectedBy(PartBefore(result.endpoint, Max(DotsOf(result.endpoint))))

\* a request to an endpoint with two dots ran the function of the blueprint
\* named by the part before the last dot, while the blueprint named by the
\* part before the first dot has a function too
C26_Witness ==
    /\ Routed
    /\ Cardinality(DotsOf(result.endpoint)) = 2
    /\ FuncsOf(before_request_funcs, BlueprintName) = <<"before_blueprint">>
    /\ FnsOfKind(result.calls, "before_request") = <<"before_other">>

----------------------------------------------------------------------------
(* RequestContext.g: the namespace of a context object *)

\* an attribute of g: its name and where its value comes from, the keyword
\* arguments of the constructor or an assignment made while the context by
\* was on top of the stack
Attr(name, by) == [name |-> name, by |-> by]

\* the mark of a value given to the constructor
FromKwargs == <<"kwargs", 0>>

\* RequestContext.__init__(app, environ, request, **kwargs): self.g is a new
\* RequestContextGlobals with the keyword arguments set on it
ContextInit(gs, ctx, kwargs) ==
    [c \in DOMAIN gs \cup {ctx} |->
        IF c = ctx THEN {Attr(k, FromKwargs) : k \in kwargs} ELSE gs[c]]

\* the assignment reaches the g of every context
GSetOnEveryContext(gs, stack, name) ==
    [c \in DOMAIN gs |-> {a \in gs[c] : a.name # name} \cup {Attr(name, StackTop(stack))}]

\* g.name = value: g stands for the g of the context on top of the stack
GSet(gs, stack, name) ==
    [c \in DOMAIN gs |->
        IF c = StackTop(stack)
        THEN {a \in gs[c] : a.name # name} \cup {Attr(name, StackTop(stack))}
        ELSE gs[c]]

\* ctx = RequestContext(app, environ, request, **kwargs)
NewContext(ctx, kwargs) ==
    /\ ctx \notin DOMAIN g
    /\ g' = ContextInit(g, ctx, kwargs)
    /\ result' = [op |-> "new_context", ctx |-> ctx, raised |-> FALSE]
    /\ UNCHANGED <<routerVars, added, view_functions, before_request_funcs,
                   after_request_funcs, teardown_request_funcs, error_handler_spec,
                   request_ctx_stack, deferred_functions, blueprints>>

\* g.name = value, the value telling the context it was set under; without
\* a context on the stack the assignment fails
SetG(name) ==
    /\ IF request_ctx_stack = <<>> \/ StackTop(request_ctx_stack) \notin DOMAIN g
       THEN /\ result' = [op |-> "set_g", ctx |-> NoCtx, raised |-> TRUE]
            /\ UNCHANGED g
       ELSE /\ result' = [op |-> "set_g", ctx |-> StackTop(request_ctx_stack), raised |-> FALSE]
            /\ g' = GSet(g, request_ctx_stack, name)
    /\ UNCHANGED <<routerVars, added, view_functions, before_request_funcs,
                   after_request_funcs, teardown_request_funcs, error_handler_spec,
                   request_ctx_stack, deferred_functions, blueprints>>

\* the context objects of the specification
GContexts == {<<"A", 0>>, <<"B", 0>>}

NextG ==
    \/ \E c \in GContexts, kwargs \in {{}, {"foo"}} : NewContext(c, kwargs)
    \/ \E c \in GContexts : c \in DOMAIN g /\ Push(c)
    \/ \E c \in GContexts : c \in DOMAIN g /\ Pop(c)
    \/ \E name \in {"foo", "x"} : SetG(name)

SpecG == Init /\ [][NextG]_vars

\* the attributes of the g of the context on top that were assigned, not
\* given to the constructor
AssignedOnTop ==
    IF StackTop(request_ctx_stack) \in DOMAIN g
    THEN {a \in g[StackTop(request_ctx_stack)] : a.by # FromKwargs}
    ELSE {}

\* C27 as stated: g is made anew on every push, so right after a push the g
\* of the pushed context shows no value assigned during an earlier push
C27_GRecreatedOnPush ==
    (result.op = "push" /\ ~result.raised) => AssignedOnTop = {}

\* the g of a context shows only what its constructor was given and what was
\* assigned while that context was on top
GOwnedByContext ==
    \A c \in DOMAIN g : \A a \in g[c] : a.by \in {FromKwargs, c}

\* push and pop leave the g of every context as it is
PushKeepsG ==
    result'.op \in {"push", "pop"} => g' = g

\* C27 as the code has it: g is made when the context object is constructed
\* and belongs to it: a value set on g while a context is pushed is never
\* visible under another context object, and it is visible again when the
\* same context object is pushed again
C27_GCreatedWithContext ==
    []GOwnedByContext /\ [][PushKeepsG]_vars

\* a context has just been pushed again and its g shows the value assigned
\* during its earlier push, while another context has values of its own
C27_Witness ==
    /\ result.op = "push" /\ ~result.raised
    /\ AssignedOnTop # {}
    /\ \E c \in DOMAIN g : c # StackTop(request_ctx_stack) /\ g[c] # {}

----------------------------------------------------------------------------
(* Properties of match as a reader of the router *)

\* a match call leaves every field of the router, the defaults of every
\* stored rule among them, as it was, and a match call that repeats the path
\* and the method of the call before it ends as that call did
MatchReadsOnly ==
    result'.op = "match" =>
        /\ routerVars' = routerVars
        /\ (result.op = "match" /\ result.path = result'.path /\ result.method = result'.method)
              => result'.out = result.out

----------------------------------------------------------------------------
(* An application that binds an endpoint a second time *)

\* routes declared for one endpoint with two view functions
RebindUrlRules ==
    {UrlRule(RuleA, EndpointIndex, "view_ok", {GET}),
     UrlRule(RuleName, EndpointIndex, "view_error", {GET}),
     UrlRule(RuleA, EndpointIndex, "view_error", {POST}),
     UrlRule(RuleName, EndpointShow, "view_ok", {GET})}

NextRebind ==
    \/ \E u \in RebindUrlRules : AddUrlRule(u.rule, u.endpoint, u.view_func, u.methods)
    \/ \E p \in {<<"/","a">>, <<"/","1">>} : Request(p, GET)

SpecRebind == Init /\ [][NextRebind]_vars

\* an add_url_rule call that raises leaves the view functions and the
\* router as they were
RaisingAddUrlRuleChangesNothing ==
    (result'.op = "add_url_rule" /\ result'.raised)
        => view_functions' = view_functions /\ routerVars' = routerVars

\* C29: when add_url_rule raises AssertionError because the endpoint is bound
\* to another view function, the application is as before the call: the
\* endpoint keeps its view function and no route was added or replaced
C29_FailedAddUrlRuleLeavesApp == [][RaisingAddUrlRuleChangesNothing]_vars

----------------------------------------------------------------------------
(* A blueprint registered more than once *)

\* the url_prefix option of the second registration, and the route under it
PrefixC == <<"/","c">>
PathCA == <<"/","c","/","a">>

RegisterDeferred ==
    {Deferred("add_url_rule", "view_ok", RuleA, EndpointShowLocal, {GET}),
     DeferredHook("before_request", "before_blueprint"),
     DeferredHook("after_request", "after_blueprint"),
     DeferredHook("teardown_request", "teardown_deferred")}

NextRegister ==
    \/ \E d \in RegisterDeferred \ Recorded(BlueprintName) : RecordCall(BlueprintName, d)
    \/ \E url_prefix \in {<<>>, PrefixC} : RegisterBlueprint(BlueprintName, url_prefix)
    \/ \E p \in {PathBlueprintA, PathCA} : Request(p, GET)

SpecRegister == Init /\ [][NextRegister]_vars

\* the positions of the function in the list
PositionsOf(funcs, f) == {i \in 1..Len(funcs) : funcs[i] = f}

\* the hooks registered for the blueprint, by the kind of their calls
BlueprintHooks(bp) ==
    {<<"before_request", FuncsOf(before_request_funcs, bp)[i]>> :
        i \in 1..Len(FuncsOf(before_request_funcs, bp))}
    \cup {<<"after_request", FuncsOf(after_request_funcs, bp)[i]>> :
        i \in 1..Len(FuncsOf(after_request_funcs, bp))}
    \cup {<<"teardown_request", FuncsOf(teardown_request_funcs, bp)[i]>> :
        i \in 1..Len(FuncsOf(teardown_request_funcs, bp))}

\* C30: a blueprint registered more than once has its routes reachable under
\* the prefix of every registration, and each of its before-request,
\* after-request and teardown functions still runs once per request to one of
\* its routes
C30_RegisteredTwiceHooksRunOnce ==
    IsRequest =>
        /\ (\E i \in 1..Len(added) : RuleText(added[i].rule) = result.path)
              => /\ Routed
                 /\ Blueprint(result.endpoint) = BlueprintName
                 /\ CallsOfKind("view") # {}
        /\ (Routed /\ ~result.raised) =>
              \A h \in BlueprintHooks(Blueprint(result.endpoint)) :
                 Cardinality(PositionsOf(FnsOfKind(result.calls, h[1]), h[2])) = 1

====
